---- MODULE Spec2Model ----
(***************************************************************************)
(* Model of mcp-docs-generator: name canonicalisation, MCP tool-name       *)
(* derivation and length validation (metadata-generator.ts), the           *)
(* token-budgeted document packer, the summarisation and description       *)
(* calls and the handling of their responses (llm-summarizer.ts), and a    *)
(* run of main with its choice of project name (index.ts).                 *)
(*                                                                         *)
(* Strings are sequences of UTF-16 code units.  A code unit is written as  *)
(* a one-character TLA+ string when it is ASCII ("a", " ", "\n") and as    *)
(* the token "uXXXX" otherwise ("u3042" is HIRAGANA LETTER A), so Len(s)   *)
(* is JavaScript's s.length.                                               *)
(***************************************************************************)
EXTENDS Integers, Sequences, FiniteSets, TLC

VARIABLES
  op,            \* which exported function was called ("none" before the call)
  projectName,   \* the projectName argument
  toolNameArg,   \* the toolName argument of validateMcpToolName
  summarizationResult, \* the summarizationResult argument of generateMcpToolMetadata
  markdownFiles, \* its markdownFiles argument
  docsRootDir,   \* its docsRootDir argument
  outcome        \* what the call did: Return(value) or Throw(message)

nameVars == <<op, projectName, toolNameArg, summarizationResult, markdownFiles,
              docsRootDir, outcome>>

VARIABLES
  impl,            \* which copy of the packer runs: "inline" (the loop inside
                   \* summarizeDocuments) or "extracted" (combineDocumentsWithinTokenLimit)
  documents,       \* the documents argument: each document is held by its
                   \* name in the table Document
  pcPack,          \* "loop" while the for loop runs, "done" after it ("off"
                   \* when the packer is not run)
  idx,             \* position of the loop in documents (1-based)
  combinedContent, \* the payload built so far, as the list of its pieces
  totalTokens,     \* the running estimate, a double
  usedDocuments    \* the number of documents packed so far

packVars == <<impl, documents, pcPack, idx, combinedContent, totalTokens, usedDocuments>>

VARIABLES
  apiKey,    \* process.env.ANTHROPIC_API_KEY as read at module load: None when unset
  pcLlm,     \* where the call of summarizeDocuments or generateDocumentDescription
             \* is: "idle", "packing", "awaiting", "done" ("off" when neither runs)
  requests,  \* the requests sent to the service so far
  reply,     \* what the service answers to the request in flight
  document   \* the document argument of generateDocumentDescription

llmVars == <<apiKey, pcLlm, requests, reply, document>>

VARIABLES
  customProjectName, \* the --project option of main: None when not given
  pcMain,     \* where main is: "stat", "statting", "find", "finding", "read",
              \* "reading", "summarize", "summarizing", "describe",
              \* "describing", "server", "config", "end" ("off" when main
              \* does not run)
  discovered, \* markdownFilePaths, what findMarkdownFiles returned
  mainIdx,    \* position of the reading or describing loop
  calls,      \* the calls main made to its collaborators, in order
  exitStatus  \* "running", then "completed" or the process.exit code

mainVars == <<customProjectName, pcMain, discovered, mainIdx, calls, exitStatus>>

vars == <<nameVars, packVars, llmVars, mainVars>>

\* An optional field (title?: string) is None when undefined, Some(s) otherwise.
None == <<>>
Some(s) == <<s>>

----------------------------------------------------------------------------
(* Characters *)

LowerLetters == <<"a","b","c","d","e","f","g","h","i","j","k","l","m",
                  "n","o","p","q","r","s","t","u","v","w","x","y","z">>
UpperLetters == <<"A","B","C","D","E","F","G","H","I","J","K","L","M",
                  "N","O","P","Q","R","S","T","U","V","W","X","Y","Z">>
Digits == <<"0","1","2","3","4","5","6","7","8","9">>

Range(s) == {s[i] : i \in 1..Len(s)}

\* The code unit numbered n: the character itself for tab, line feed,
\* carriage return and printable ASCII (but "u0060" for the grave accent,
\* which a TLA+ string cannot hold), the token "uXXXX" otherwise.
HexDigits == <<"0","1","2","3","4","5","6","7","8","9","a","b","c","d","e","f">>
PrintableAscii ==
  <<
    " ", "!", "\"", "#", "$", "%", "&", "'", "(", ")", "*", "+", ",", "-", ".", "/",
    "0", "1", "2", "3", "4", "5", "6", "7", "8", "9", ":", ";", "<", "=", ">", "?",
    "@", "A", "B", "C", "D", "E", "F", "G", "H", "I", "J", "K", "L", "M", "N", "O",
    "P", "Q", "R", "S", "T", "U", "V", "W", "X", "Y", "Z", "[", "\\", "]", "^", "_",
    "u0060", "a", "b", "c", "d", "e", "f", "g", "h", "i", "j", "k", "l", "m", "n", "o",
    "p", "q", "r", "s", "t", "u", "v", "w", "x", "y", "z", "{", "|", "}", "~"
  >>
U(n) ==
  IF n = 9 THEN "\t" ELSE IF n = 10 THEN "\n" ELSE IF n = 13 THEN "\r"
  ELSE IF n >= 32 /\ n <= 126 THEN PrintableAscii[n - 31]
  ELSE "u" \o HexDigits[(n \div 4096) + 1] \o HexDigits[((n \div 256) % 16) + 1]
           \o HexDigits[((n \div 16) % 16) + 1] \o HexDigits[(n % 16) + 1]

\* The code units of the code point numbered n: one, or a surrogate pair.
CodeUnits(n) ==
  IF n < 65536 THEN <<U(n)>>
  ELSE <<U(55296 + ((n - 65536) \div 1024)), U(56320 + ((n - 65536) % 1024))>>

HighSurrogates == {U(n) : n \in 55296..56319}
LowSurrogates == {U(n) : n \in 56320..57343}

\* JavaScript's \s and the characters String.prototype.trim removes:
\* WhiteSpace (TAB, VT, FF, SP, NBSP, ZWNBSP and the category Zs) and
\* LineTerminator (LF, CR, u2028, u2029).
WhitespaceChars ==
  {U(n) : n \in {9, 10, 11, 12, 13, 32, 160, 5760, 8232, 8233, 8239, 8287, 12288, 65279}
                  \cup (8192..8202)}

\* The class [a-z0-9-] of NON_ALPHANUMERIC_HYPHEN_PATTERN (negated there).
AlnumHyphenChars == Range(LowerLetters) \cup Range(Digits) \cup {"-"}

\* The simple lower-case mappings of the Unicode character database as
\* <<first, last, step, delta>>: every step-th code point from first to last
\* maps to itself plus delta.
LowerRanges ==
  <<
    <<65,90,1,32>>, <<192,214,1,32>>, <<216,222,1,32>>, <<256,302,2,1>>,
    <<306,310,2,1>>, <<313,327,2,1>>, <<330,374,2,1>>, <<376,376,1,-121>>,
    <<377,381,2,1>>, <<385,385,1,210>>, <<386,388,2,1>>, <<390,390,1,206>>,
    <<391,391,1,1>>, <<393,394,1,205>>, <<395,395,1,1>>, <<398,398,1,79>>,
    <<399,399,1,202>>, <<400,400,1,203>>, <<401,401,1,1>>, <<403,403,1,205>>,
    <<404,404,1,207>>, <<406,406,1,211>>, <<407,407,1,209>>, <<408,408,1,1>>,
    <<412,412,1,211>>, <<413,413,1,213>>, <<415,415,1,214>>, <<416,420,2,1>>,
    <<422,422,1,218>>, <<423,423,1,1>>, <<425,425,1,218>>, <<428,428,1,1>>,
    <<430,430,1,218>>, <<431,431,1,1>>, <<433,434,1,217>>, <<435,437,2,1>>,
    <<439,439,1,219>>, <<440,440,1,1>>, <<444,444,1,1>>, <<452,452,1,2>>,
    <<453,453,1,1>>, <<455,455,1,2>>, <<456,456,1,1>>, <<458,458,1,2>>,
    <<459,475,2,1>>, <<478,494,2,1>>, <<497,497,1,2>>, <<498,500,2,1>>,
    <<502,502,1,-97>>, <<503,503,1,-56>>, <<504,542,2,1>>, <<544,544,1,-130>>,
    <<546,562,2,1>>, <<570,570,1,10795>>, <<571,571,1,1>>, <<573,573,1,-163>>,
    <<574,574,1,10792>>, <<577,577,1,1>>, <<579,579,1,-195>>, <<580,580,1,69>>,
    <<581,581,1,71>>, <<582,590,2,1>>, <<880,882,2,1>>, <<886,886,1,1>>,
    <<895,895,1,116>>, <<902,902,1,38>>, <<904,906,1,37>>, <<908,908,1,64>>,
    <<910,911,1,63>>, <<913,929,1,32>>, <<931,939,1,32>>, <<975,975,1,8>>,
    <<984,1006,2,1>>, <<1012,1012,1,-60>>, <<1015,1015,1,1>>, <<1017,1017,1,-7>>,
    <<1018,1018,1,1>>, <<1021,1023,1,-130>>, <<1024,1039,1,80>>, <<1040,1071,1,32>>,
    <<1120,1152,2,1>>, <<1162,1214,2,1>>, <<1216,1216,1,15>>, <<1217,1229,2,1>>,
    <<1232,1326,2,1>>, <<1329,1366,1,48>>, <<4256,4293,1,7264>>, <<4295,4295,1,7264>>,
    <<4301,4301,1,7264>>, <<5024,5103,1,38864>>, <<5104,5109,1,8>>, <<7305,7305,1,1>>,
    <<7312,7354,1,-3008>>, <<7357,7359,1,-3008>>, <<7680,7828,2,1>>, <<7838,7838,1,-7615>>,
    <<7840,7934,2,1>>, <<7944,7951,1,-8>>, <<7960,7965,1,-8>>, <<7976,7983,1,-8>>,
    <<7992,7999,1,-8>>, <<8008,8013,1,-8>>, <<8025,8031,2,-8>>, <<8040,8047,1,-8>>,
    <<8072,8079,1,-8>>, <<8088,8095,1,-8>>, <<8104,8111,1,-8>>, <<8120,8121,1,-8>>,
    <<8122,8123,1,-74>>, <<8124,8124,1,-9>>, <<8136,8139,1,-86>>, <<8140,8140,1,-9>>,
    <<8152,8153,1,-8>>, <<8154,8155,1,-100>>, <<8168,8169,1,-8>>, <<8170,8171,1,-112>>,
    <<8172,8172,1,-7>>, <<8184,8185,1,-128>>, <<8186,8187,1,-126>>, <<8188,8188,1,-9>>,
    <<8486,8486,1,-7517>>, <<8490,8490,1,-8383>>, <<8491,8491,1,-8262>>, <<8498,8498,1,28>>,
    <<8544,8559,1,16>>, <<8579,8579,1,1>>, <<9398,9423,1,26>>, <<11264,11311,1,48>>,
    <<11360,11360,1,1>>, <<11362,11362,1,-10743>>, <<11363,11363,1,-3814>>, <<11364,11364,1,-10727>>,
    <<11367,11371,2,1>>, <<11373,11373,1,-10780>>, <<11374,11374,1,-10749>>, <<11375,11375,1,-10783>>,
    <<11376,11376,1,-10782>>, <<11378,11378,1,1>>, <<11381,11381,1,1>>, <<11390,11391,1,-10815>>,
    <<11392,11490,2,1>>, <<11499,11501,2,1>>, <<11506,11506,1,1>>, <<42560,42604,2,1>>,
    <<42624,42650,2,1>>, <<42786,42798,2,1>>, <<42802,42862,2,1>>, <<42873,42875,2,1>>,
    <<42877,42877,1,-35332>>, <<42878,42886,2,1>>, <<42891,42891,1,1>>, <<42893,42893,1,-42280>>,
    <<42896,42898,2,1>>, <<42902,42920,2,1>>, <<42922,42922,1,-42308>>, <<42923,42923,1,-42319>>,
    <<42924,42924,1,-42315>>, <<42925,42925,1,-42305>>, <<42926,42926,1,-42308>>, <<42928,42928,1,-42258>>,
    <<42929,42929,1,-42282>>, <<42930,42930,1,-42261>>, <<42931,42931,1,928>>, <<42932,42946,2,1>>,
    <<42948,42948,1,-48>>, <<42949,42949,1,-42307>>, <<42950,42950,1,-35384>>, <<42951,42953,2,1>>,
    <<42955,42955,1,-42343>>, <<42956,42970,2,1>>, <<42972,42972,1,-42561>>, <<42997,42997,1,1>>,
    <<65313,65338,1,32>>, <<66560,66599,1,40>>, <<66736,66771,1,40>>, <<66928,66938,1,39>>,
    <<66940,66954,1,39>>, <<66956,66962,1,39>>, <<66964,66965,1,39>>, <<68736,68786,1,64>>,
    <<68944,68965,1,32>>, <<71840,71871,1,32>>, <<93760,93791,1,32>>, <<93856,93880,1,27>>,
    <<125184,125217,1,34>>
  >>

\* Code points that are Cased and not Case_Ignorable, and code points that are
\* Case_Ignorable, as <<first, last>>: the context of the Final_Sigma rule.
CasedRanges ==
  {
    <<65,90>>, <<97,122>>, <<170,170>>, <<181,181>>, <<186,186>>, <<192,214>>, <<216,246>>,
    <<248,442>>, <<444,447>>, <<452,659>>, <<662,687>>, <<880,883>>, <<886,887>>, <<891,893>>,
    <<895,895>>, <<902,902>>, <<904,906>>, <<908,908>>, <<910,929>>, <<931,1013>>, <<1015,1153>>,
    <<1162,1327>>, <<1329,1366>>, <<1376,1416>>, <<4256,4293>>, <<4295,4295>>, <<4301,4301>>, <<4304,4346>>,
    <<4349,4351>>, <<5024,5109>>, <<5112,5117>>, <<7296,7306>>, <<7312,7354>>, <<7357,7359>>, <<7424,7467>>,
    <<7531,7543>>, <<7545,7578>>, <<7680,7957>>, <<7960,7965>>, <<7968,8005>>, <<8008,8013>>, <<8016,8023>>,
    <<8025,8025>>, <<8027,8027>>, <<8029,8029>>, <<8031,8061>>, <<8064,8116>>, <<8118,8124>>, <<8126,8126>>,
    <<8130,8132>>, <<8134,8140>>, <<8144,8147>>, <<8150,8155>>, <<8160,8172>>, <<8178,8180>>, <<8182,8188>>,
    <<8450,8450>>, <<8455,8455>>, <<8458,8467>>, <<8469,8469>>, <<8473,8477>>, <<8484,8484>>, <<8486,8486>>,
    <<8488,8488>>, <<8490,8493>>, <<8495,8500>>, <<8505,8505>>, <<8508,8511>>, <<8517,8521>>, <<8526,8526>>,
    <<8544,8575>>, <<8579,8580>>, <<9398,9449>>, <<11264,11387>>, <<11390,11492>>, <<11499,11502>>, <<11506,11507>>,
    <<11520,11557>>, <<11559,11559>>, <<11565,11565>>, <<42560,42605>>, <<42624,42651>>, <<42786,42863>>, <<42865,42887>>,
    <<42891,42894>>, <<42896,42972>>, <<42997,42998>>, <<43002,43002>>, <<43824,43866>>, <<43872,43880>>, <<43888,43967>>,
    <<64256,64262>>, <<64275,64279>>, <<65313,65338>>, <<65345,65370>>, <<66560,66639>>, <<66736,66771>>, <<66776,66811>>,
    <<66928,66938>>, <<66940,66954>>, <<66956,66962>>, <<66964,66965>>, <<66967,66977>>, <<66979,66993>>, <<66995,67001>>,
    <<67003,67004>>, <<68736,68786>>, <<68800,68850>>, <<68944,68965>>, <<68976,68997>>, <<71840,71903>>, <<93760,93823>>,
    <<93856,93880>>, <<93883,93907>>, <<119808,119892>>, <<119894,119964>>, <<119966,119967>>, <<119970,119970>>, <<119973,119974>>,
    <<119977,119980>>, <<119982,119993>>, <<119995,119995>>, <<119997,120003>>, <<120005,120069>>, <<120071,120074>>, <<120077,120084>>,
    <<120086,120092>>, <<120094,120121>>, <<120123,120126>>, <<120128,120132>>, <<120134,120134>>, <<120138,120144>>, <<120146,120485>>,
    <<120488,120512>>, <<120514,120538>>, <<120540,120570>>, <<120572,120596>>, <<120598,120628>>, <<120630,120654>>, <<120656,120686>>,
    <<120688,120712>>, <<120714,120744>>, <<120746,120770>>, <<120772,120779>>, <<122624,122633>>, <<122635,122654>>, <<122661,122666>>,
    <<125184,125251>>, <<127280,127305>>, <<127312,127337>>, <<127344,127369>>
  }
CaseIgnorableRanges ==
  {
    <<39,39>>, <<46,46>>, <<58,58>>, <<94,94>>, <<96,96>>, <<168,168>>, <<173,173>>,
    <<175,175>>, <<180,180>>, <<183,184>>, <<688,879>>, <<884,885>>, <<890,890>>, <<900,901>>,
    <<903,903>>, <<1155,1161>>, <<1369,1369>>, <<1375,1375>>, <<1425,1469>>, <<1471,1471>>, <<1473,1474>>,
    <<1476,1477>>, <<1479,1479>>, <<1524,1524>>, <<1536,1541>>, <<1552,1562>>, <<1564,1564>>, <<1600,1600>>,
    <<1611,1631>>, <<1648,1648>>, <<1750,1757>>, <<1759,1768>>, <<1770,1773>>, <<1807,1807>>, <<1809,1809>>,
    <<1840,1866>>, <<1958,1968>>, <<2027,2037>>, <<2042,2042>>, <<2045,2045>>, <<2070,2093>>, <<2137,2139>>,
    <<2184,2184>>, <<2192,2193>>, <<2199,2207>>, <<2249,2306>>, <<2362,2362>>, <<2364,2364>>, <<2369,2376>>,
    <<2381,2381>>, <<2385,2391>>, <<2402,2403>>, <<2417,2417>>, <<2433,2433>>, <<2492,2492>>, <<2497,2500>>,
    <<2509,2509>>, <<2530,2531>>, <<2558,2558>>, <<2561,2562>>, <<2620,2620>>, <<2625,2626>>, <<2631,2632>>,
    <<2635,2637>>, <<2641,2641>>, <<2672,2673>>, <<2677,2677>>, <<2689,2690>>, <<2748,2748>>, <<2753,2757>>,
    <<2759,2760>>, <<2765,2765>>, <<2786,2787>>, <<2810,2815>>, <<2817,2817>>, <<2876,2876>>, <<2879,2879>>,
    <<2881,2884>>, <<2893,2893>>, <<2901,2902>>, <<2914,2915>>, <<2946,2946>>, <<3008,3008>>, <<3021,3021>>,
    <<3072,3072>>, <<3076,3076>>, <<3132,3132>>, <<3134,3136>>, <<3142,3144>>, <<3146,3149>>, <<3157,3158>>,
    <<3170,3171>>, <<3201,3201>>, <<3260,3260>>, <<3263,3263>>, <<3270,3270>>, <<3276,3277>>, <<3298,3299>>,
    <<3328,3329>>, <<3387,3388>>, <<3393,3396>>, <<3405,3405>>, <<3426,3427>>, <<3457,3457>>, <<3530,3530>>,
    <<3538,3540>>, <<3542,3542>>, <<3633,3633>>, <<3636,3642>>, <<3654,3662>>, <<3761,3761>>, <<3764,3772>>,
    <<3782,3782>>, <<3784,3790>>, <<3864,3865>>, <<3893,3893>>, <<3895,3895>>, <<3897,3897>>, <<3953,3966>>,
    <<3968,3972>>, <<3974,3975>>, <<3981,3991>>, <<3993,4028>>, <<4038,4038>>, <<4141,4144>>, <<4146,4151>>,
    <<4153,4154>>, <<4157,4158>>, <<4184,4185>>, <<4190,4192>>, <<4209,4212>>, <<4226,4226>>, <<4229,4230>>,
    <<4237,4237>>, <<4253,4253>>, <<4348,4348>>, <<4957,4959>>, <<5906,5908>>, <<5938,5939>>, <<5970,5971>>,
    <<6002,6003>>, <<6068,6069>>, <<6071,6077>>, <<6086,6086>>, <<6089,6099>>, <<6103,6103>>, <<6109,6109>>,
    <<6155,6159>>, <<6211,6211>>, <<6277,6278>>, <<6313,6313>>, <<6432,6434>>, <<6439,6440>>, <<6450,6450>>,
    <<6457,6459>>, <<6679,6680>>, <<6683,6683>>, <<6742,6742>>, <<6744,6750>>, <<6752,6752>>, <<6754,6754>>,
    <<6757,6764>>, <<6771,6780>>, <<6783,6783>>, <<6823,6823>>, <<6832,6877>>, <<6880,6891>>, <<6912,6915>>,
    <<6964,6964>>, <<6966,6970>>, <<6972,6972>>, <<6978,6978>>, <<7019,7027>>, <<7040,7041>>, <<7074,7077>>,
    <<7080,7081>>, <<7083,7085>>, <<7142,7142>>, <<7144,7145>>, <<7149,7149>>, <<7151,7153>>, <<7212,7219>>,
    <<7222,7223>>, <<7288,7293>>, <<7376,7378>>, <<7380,7392>>, <<7394,7400>>, <<7405,7405>>, <<7412,7412>>,
    <<7416,7417>>, <<7468,7530>>, <<7544,7544>>, <<7579,7679>>, <<8125,8125>>, <<8127,8129>>, <<8141,8143>>,
    <<8157,8159>>, <<8173,8175>>, <<8189,8190>>, <<8203,8207>>, <<8216,8217>>, <<8228,8228>>, <<8231,8231>>,
    <<8234,8238>>, <<8288,8292>>, <<8294,8303>>, <<8305,8305>>, <<8319,8319>>, <<8336,8348>>, <<8400,8432>>,
    <<11388,11389>>, <<11503,11505>>, <<11631,11631>>, <<11647,11647>>, <<11744,11775>>, <<11823,11823>>, <<12293,12293>>,
    <<12330,12333>>, <<12337,12341>>, <<12347,12347>>, <<12441,12446>>, <<12540,12542>>, <<40981,40981>>, <<42232,42237>>,
    <<42508,42508>>, <<42607,42610>>, <<42612,42621>>, <<42623,42623>>, <<42652,42655>>, <<42736,42737>>, <<42752,42785>>,
    <<42864,42864>>, <<42888,42890>>, <<42993,42996>>, <<43000,43001>>, <<43010,43010>>, <<43014,43014>>, <<43019,43019>>,
    <<43045,43046>>, <<43052,43052>>, <<43204,43205>>, <<43232,43249>>, <<43263,43263>>, <<43302,43309>>, <<43335,43345>>,
    <<43392,43394>>, <<43443,43443>>, <<43446,43449>>, <<43452,43453>>, <<43471,43471>>, <<43493,43494>>, <<43561,43566>>,
    <<43569,43570>>, <<43573,43574>>, <<43587,43587>>, <<43596,43596>>, <<43632,43632>>, <<43644,43644>>, <<43696,43696>>,
    <<43698,43700>>, <<43703,43704>>, <<43710,43711>>, <<43713,43713>>, <<43741,43741>>, <<43756,43757>>, <<43763,43764>>,
    <<43766,43766>>, <<43867,43871>>, <<43881,43883>>, <<44005,44005>>, <<44008,44008>>, <<44013,44013>>, <<64286,64286>>,
    <<64434,64450>>, <<65024,65039>>, <<65043,65043>>, <<65056,65071>>, <<65106,65106>>, <<65109,65109>>, <<65279,65279>>,
    <<65287,65287>>, <<65294,65294>>, <<65306,65306>>, <<65342,65342>>, <<65344,65344>>, <<65392,65392>>, <<65438,65439>>,
    <<65507,65507>>, <<65529,65531>>, <<66045,66045>>, <<66272,66272>>, <<66422,66426>>, <<67456,67461>>, <<67463,67504>>,
    <<67506,67514>>, <<68097,68099>>, <<68101,68102>>, <<68108,68111>>, <<68152,68154>>, <<68159,68159>>, <<68325,68326>>,
    <<68900,68903>>, <<68942,68942>>, <<68969,68973>>, <<68975,68975>>, <<69291,69292>>, <<69317,69317>>, <<69370,69375>>,
    <<69446,69456>>, <<69506,69509>>, <<69633,69633>>, <<69688,69702>>, <<69744,69744>>, <<69747,69748>>, <<69759,69761>>,
    <<69811,69814>>, <<69817,69818>>, <<69821,69821>>, <<69826,69826>>, <<69837,69837>>, <<69888,69890>>, <<69927,69931>>,
    <<69933,69940>>, <<70003,70003>>, <<70016,70017>>, <<70070,70078>>, <<70089,70092>>, <<70095,70095>>, <<70191,70193>>,
    <<70196,70196>>, <<70198,70199>>, <<70206,70206>>, <<70209,70209>>, <<70367,70367>>, <<70371,70378>>, <<70400,70401>>,
    <<70459,70460>>, <<70464,70464>>, <<70502,70508>>, <<70512,70516>>, <<70587,70592>>, <<70606,70606>>, <<70608,70608>>,
    <<70610,70610>>, <<70625,70626>>, <<70712,70719>>, <<70722,70724>>, <<70726,70726>>, <<70750,70750>>, <<70835,70840>>,
    <<70842,70842>>, <<70847,70848>>, <<70850,70851>>, <<71090,71093>>, <<71100,71101>>, <<71103,71104>>, <<71132,71133>>,
    <<71219,71226>>, <<71229,71229>>, <<71231,71232>>, <<71339,71339>>, <<71341,71341>>, <<71344,71349>>, <<71351,71351>>,
    <<71453,71453>>, <<71455,71455>>, <<71458,71461>>, <<71463,71467>>, <<71727,71735>>, <<71737,71738>>, <<71995,71996>>,
    <<71998,71998>>, <<72003,72003>>, <<72148,72151>>, <<72154,72155>>, <<72160,72160>>, <<72193,72202>>, <<72243,72248>>,
    <<72251,72254>>, <<72263,72263>>, <<72273,72278>>, <<72281,72283>>, <<72330,72342>>, <<72344,72345>>, <<72544,72544>>,
    <<72546,72548>>, <<72550,72550>>, <<72752,72758>>, <<72760,72765>>, <<72767,72767>>, <<72850,72871>>, <<72874,72880>>,
    <<72882,72883>>, <<72885,72886>>, <<73009,73014>>, <<73018,73018>>, <<73020,73021>>, <<73023,73029>>, <<73031,73031>>,
    <<73104,73105>>, <<73109,73109>>, <<73111,73111>>, <<73177,73177>>, <<73459,73460>>, <<73472,73473>>, <<73526,73530>>,
    <<73536,73536>>, <<73538,73538>>, <<73562,73562>>, <<78896,78912>>, <<78919,78933>>, <<90398,90409>>, <<90413,90415>>,
    <<92912,92916>>, <<92976,92982>>, <<92992,92995>>, <<93504,93506>>, <<93547,93548>>, <<94031,94031>>, <<94095,94111>>,
    <<94176,94177>>, <<94179,94180>>, <<94194,94195>>, <<110576,110579>>, <<110581,110587>>, <<110589,110590>>, <<113821,113822>>,
    <<113824,113827>>, <<118528,118573>>, <<118576,118598>>, <<119143,119145>>, <<119155,119170>>, <<119173,119179>>, <<119210,119213>>,
    <<119362,119364>>, <<121344,121398>>, <<121403,121452>>, <<121461,121461>>, <<121476,121476>>, <<121499,121503>>, <<121505,121519>>,
    <<122880,122886>>, <<122888,122904>>, <<122907,122913>>, <<122915,122916>>, <<122918,122922>>, <<122928,122989>>, <<123023,123023>>,
    <<123184,123197>>, <<123566,123566>>, <<123628,123631>>, <<124139,124143>>, <<124398,124399>>, <<124643,124643>>, <<124646,124646>>,
    <<124654,124655>>, <<124661,124661>>, <<124671,124671>>, <<125136,125142>>, <<125252,125259>>, <<127995,127999>>, <<917505,917505>>,
    <<917536,917631>>, <<917760,917999>>
  }
CasedChars == UNION {{CodeUnits(n) : n \in r[1]..r[2]} : r \in CasedRanges}
CaseIgnorableChars == UNION {{CodeUnits(n) : n \in r[1]..r[2]} : r \in CaseIgnorableRanges}

\* The mapping of count code points from first on, and of the ranges
\* numbered from..to, each built by halving.
RECURSIVE LowerOfRange(_, _, _, _)
LowerOfRange(first, count, step, delta) ==
  IF count = 1 THEN CodeUnits(first) :> CodeUnits(first + delta)
  ELSE LowerOfRange(first, count \div 2, step, delta)
         @@ LowerOfRange(first + step * (count \div 2), count - (count \div 2), step, delta)
RECURSIVE LowerOfRanges(_, _)
LowerOfRanges(from, to) ==
  IF from = to
    THEN LowerOfRange(LowerRanges[from][1],
                      ((LowerRanges[from][2] - LowerRanges[from][1]) \div LowerRanges[from][3]) + 1,
                      LowerRanges[from][3], LowerRanges[from][4])
    ELSE LowerOfRanges(from, (from + to) \div 2) @@ LowerOfRanges(((from + to) \div 2) + 1, to)

\* The lower case of every character that has one, by its code units.  One
\* mapping is not simple: u0130 LATIN CAPITAL LETTER I WITH DOT ABOVE gives
\* "i" and u0307 COMBINING DOT ABOVE.
LowerOf == (<<"u0130">> :> <<"i", "u0307">>) @@ LowerOfRanges(1, Len(LowerRanges))

\* String.prototype.toLowerCase on a string of one code unit.
toLowerChar(c) == IF <<c>> \in DOMAIN LowerOf THEN LowerOf[<<c>>] ELSE <<c>>

\* The characters of a string: a high surrogate and the low surrogate after
\* it are one character, every other code unit is one by itself.
RECURSIVE Characters(_)
Characters(s) ==
  IF s = <<>> THEN <<>>
  ELSE IF Len(s) >= 2 /\ s[1] \in HighSurrogates /\ s[2] \in LowSurrogates
    THEN <<SubSeq(s, 1, 2)>> \o Characters(SubSeq(s, 3, Len(s)))
    ELSE <<SubSeq(s, 1, 1)>> \o Characters(Tail(s))

\* Final_Sigma: the character at i is preceded by a cased letter and then any
\* number of case-ignorable characters, and is not followed by any number of
\* case-ignorable characters and then a cased letter.
FinalSigma(chars, i) ==
  LET before == {j \in 1..(i - 1) : chars[j] \notin CaseIgnorableChars}
      after == {j \in (i + 1)..Len(chars) : chars[j] \notin CaseIgnorableChars}
  IN /\ before # {}
     /\ chars[CHOOSE j \in before : \A k \in before : k <= j] \in CasedChars
     /\ \/ after = {}
        \/ chars[CHOOSE j \in after : \A k \in after : j <= k] \notin CasedChars

RECURSIVE Flatten(_)
Flatten(ss) == IF ss = <<>> THEN <<>> ELSE Head(ss) \o Flatten(Tail(ss))

\* String.prototype.toLowerCase: every character is replaced by its lower
\* case; u03a3 GREEK CAPITAL LETTER SIGMA becomes u03c2 (final sigma) where
\* the Final_Sigma rule holds and u03c3 elsewhere.
toLowerCase(s) ==
  LET chars == Characters(s)
  IN Flatten([i \in 1..Len(chars) |->
                IF chars[i] = <<"u03a3">>
                  THEN (IF FinalSigma(chars, i) THEN <<"u03c2">> ELSE <<"u03c3">>)
                ELSE IF chars[i] \in DOMAIN LowerOf THEN LowerOf[chars[i]]
                ELSE chars[i]])

\* s.replace(/\s+/g, '-'): every maximal run of whitespace becomes one hyphen.
Dropped == "DROPPED"
replaceSpaces(s) ==
  SelectSeq([i \in 1..Len(s) |->
               IF s[i] \in WhitespaceChars
                 THEN (IF i = 1 \/ s[i-1] \notin WhitespaceChars THEN "-" ELSE Dropped)
                 ELSE s[i]],
            LAMBDA c : c # Dropped)

\* s.replace(/[^a-z0-9-]/g, ''): every code unit outside the class is removed.
stripNonAlnumHyphen(s) == SelectSeq(s, LAMBDA c : c \in AlnumHyphenChars)

\* Missing g flag: only the first offending code unit is removed.
stripFirstNonAlnumHyphen(s) ==
  IF \A i \in 1..Len(s) : s[i] \in AlnumHyphenChars THEN s
  ELSE LET k == CHOOSE i \in 1..Len(s) :
                  /\ s[i] \notin AlnumHyphenChars
                  /\ \A j \in 1..(i-1) : s[j] \in AlnumHyphenChars
       IN SubSeq(s, 1, k-1) \o SubSeq(s, k+1, Len(s))

----------------------------------------------------------------------------
(* Numbers *)

Min(a, b) == IF a <= b THEN a ELSE b
Max(a, b) == IF a >= b THEN a ELSE b
SetMin(S) == CHOOSE x \in S : \A y \in S : x <= y
SetMax(S) == CHOOSE x \in S : \A y \in S : x >= y

\* F of the value v, which is worked out once however often F uses it.
Bind(v, F(_)) == F(v)

RECURSIVE Pow2(_)
Pow2(k) == IF k = 0 THEN 1 ELSE 2 * Pow2(k - 1)
RECURSIVE Pow5(_)
Pow5(k) == IF k = 0 THEN 1 ELSE 5 * Pow5(k - 1)

\* A natural number of any size is the sequence of its limbs in base 1024,
\* the least significant first and the last one not zero; <<>> is zero.
Limb(a, i) == IF i >= 1 /\ i <= Len(a) THEN a[i] ELSE 0

\* The number n < 2^31.
BigOfInt(n) ==
  IF n = 0 THEN <<>>
  ELSE IF n < 1024 THEN <<n>>
  ELSE IF n < 1048576 THEN <<n % 1024, n \div 1024>>
  ELSE IF n < 1073741824 THEN <<n % 1024, (n \div 1024) % 1024, n \div 1048576>>
  ELSE <<n % 1024, (n \div 1024) % 1024, (n \div 1048576) % 1024, n \div 1073741824>>

\* a without zero limbs at the top.
BigTrim(a) ==
  IF a = <<>> \/ a[Len(a)] # 0 THEN a
  ELSE IF \A i \in 1..Len(a) : a[i] = 0 THEN <<>>
  ELSE SubSeq(a, 1, CHOOSE i \in 1..Len(a) :
                      a[i] # 0 /\ \A j \in (i + 1)..Len(a) : a[j] = 0)

\* The limbs lo..hi of the number whose columns are cols (column i counts
\* cols[i] times 1024^(i-1), and may be negative), with carry coming in,
\* and the carry going out; by halves.
RECURSIVE BigCarry(_, _, _, _)
BigCarry(cols, lo, hi, carry) ==
  IF lo > hi THEN <<<<>>, carry>>
  ELSE IF lo = hi
    THEN <<<<(cols[lo] + carry) % 1024>>, (cols[lo] + carry) \div 1024>>
    ELSE LET mid == (lo + hi) \div 2
             low == BigCarry(cols, lo, mid, carry)
             high == BigCarry(cols, mid + 1, hi, low[2])
         IN <<low[1] \o high[1], high[2]>>

\* The number whose columns are cols, when it is not negative.
BigOfColumns(cols) ==
  Bind(BigCarry(cols, 1, Len(cols), 0), LAMBDA r : BigTrim(r[1] \o BigOfInt(r[2])))

BigAdd(a, b) == BigOfColumns([i \in 1..Max(Len(a), Len(b)) |-> Limb(a, i) + Limb(b, i)])
\* a - b, for a >= b.
BigSub(a, b) == BigOfColumns([i \in 1..Len(a) |-> a[i] - Limb(b, i)])
\* a * k, for 0 <= k <= 2^20.
BigMulSmall(a, k) == BigOfColumns([i \in 1..Len(a) |-> a[i] * k])

\* The sum of a[i] * b[k + 1 - i] over i in lo..hi, by halves.
RECURSIVE BigDot(_, _, _, _, _)
BigDot(a, b, k, lo, hi) ==
  IF lo = hi THEN a[lo] * b[k + 1 - lo]
  ELSE BigDot(a, b, k, lo, (lo + hi) \div 2) + BigDot(a, b, k, ((lo + hi) \div 2) + 1, hi)

BigMul(a, b) ==
  IF a = <<>> \/ b = <<>> THEN <<>>
  ELSE BigOfColumns([k \in 1..(Len(a) + Len(b) - 1) |->
                       BigDot(a, b, k, Max(1, k + 1 - Len(b)), Min(Len(a), k))])

\* a <= b and a < b.
BigLeq(a, b) ==
  IF Len(a) # Len(b) THEN Len(a) < Len(b)
  ELSE \/ a = b
       \/ LET i == CHOOSE i \in 1..Len(a) :
                     a[i] # b[i] /\ \A j \in (i + 1)..Len(a) : a[j] = b[j]
          IN a[i] < b[i]
BigLess(a, b) == ~BigLeq(b, a)

\* The number of bits of a: the least n with a < 2^n.
BigBitLength(a) ==
  IF a = <<>> THEN 0
  ELSE 10 * (Len(a) - 1) + (CHOOSE n \in 1..10 : a[Len(a)] >= Pow2(n - 1) /\ a[Len(a)] < Pow2(n))

\* a * 2^d, the whole part of a / 2^d, bit i of a (bit 0 is the lowest),
\* and whether a is a multiple of 2^d.
BigShiftLeft(a, d) ==
  IF a = <<>> THEN <<>> ELSE [i \in 1..(d \div 10) |-> 0] \o BigMulSmall(a, Pow2(d % 10))
BigShiftRight(a, d) ==
  LET q == d \div 10
      r == d % 10
  IN IF Len(a) <= q THEN <<>>
     ELSE BigTrim([i \in 1..(Len(a) - q) |->
                     (a[i + q] \div Pow2(r)) + (Limb(a, i + q + 1) % Pow2(r)) * Pow2(10 - r)])
BigBit(a, i) == (Limb(a, (i \div 10) + 1) \div Pow2(i % 10)) % 2
BigLowBitsZero(a, d) ==
  /\ \A i \in 1..Min(Len(a), d \div 10) : a[i] = 0
  /\ Limb(a, (d \div 10) + 1) % Pow2(d % 10) = 0

\* 5^k and 10^k, by squaring.
RECURSIVE BigPow5(_)
BigPow5(k) ==
  IF k <= 13 THEN BigOfInt(Pow5(k))
  ELSE Bind(BigPow5(k \div 2), LAMBDA half :
       Bind(BigMul(half, half), LAMBDA square :
         IF k % 2 = 0 THEN square ELSE BigMulSmall(square, 5)))
BigPow10(k) == BigShiftLeft(BigPow5(k), k)

\* The whole part of a / b for b > 0 down to bit lo, given its bits above
\* bit hi in acc: the bits hi..lo are found from the top, by halves.
RECURSIVE BigQuotient(_, _, _, _, _)
BigQuotient(a, b, hi, lo, acc) ==
  IF hi < lo THEN acc
  ELSE IF hi = lo
    THEN Bind(BigAdd(acc, BigShiftLeft(<<1>>, hi)), LAMBDA more :
           IF BigLeq(BigMul(more, b), a) THEN more ELSE acc)
  ELSE Bind(BigQuotient(a, b, hi, ((hi + lo) \div 2) + 1, acc), LAMBDA upper :
         IF upper = acc THEN BigQuotient(a, b, (hi + lo) \div 2, lo, acc)
         ELSE BigQuotient(a, b, (hi + lo) \div 2, lo, upper))

\* A JavaScript number is an IEEE 754 double: plus or minus Infinity, or plus
\* or minus mant * 2^exp with mant a natural number below 2^53 and exp at
\* least -1074; mant is at least 2^52 unless exp is -1074 (a subnormal
\* number) or the number is zero (mant zero, exp zero).
Double(neg, inf, mant, exp) == [neg |-> neg, inf |-> inf, mant |-> mant, exp |-> exp]
DoubleZero(neg) == Double(neg, FALSE, <<>>, 0)
DoubleInfinity(neg) == Double(neg, TRUE, <<>>, 0)

\* Plus or minus mant * 2^exp for mant below 2^53 that is at least 2^52
\* unless exp is -1074: zero, a finite double, or Infinity from 2^1024 on.
DoubleOfMant(neg, mant, exp) ==
  IF mant = <<>> THEN DoubleZero(neg)
  ELSE IF exp > 971 THEN DoubleInfinity(neg)
  ELSE Double(neg, FALSE, mant, exp)

\* The double nearest to plus or minus m * 2^s, or to a real number above
\* that and below (m + 1) * 2^s when sticky, ties to the even mant; Infinity
\* from 2^1024 on.  With sticky, m has at least 55 bits or s is below -1075.
RoundToDouble(neg, m, s, sticky) ==
  Bind(Max(s + BigBitLength(m) - 53, -1074), LAMBDA exp :
    IF exp <= s THEN DoubleOfMant(neg, BigShiftLeft(m, s - exp), exp)
    ELSE
      Bind(BigShiftRight(m, exp - s), LAMBDA kept :
      Bind(IF /\ BigBit(m, exp - s - 1) = 1
              /\ \/ sticky
                 \/ ~BigLowBitsZero(m, exp - s - 1)
                 \/ BigBit(kept, 0) = 1
             THEN BigAdd(kept, <<1>>) ELSE kept, LAMBDA rounded :
        IF BigBitLength(rounded) = 54 THEN DoubleOfMant(neg, BigShiftRight(rounded, 1), exp + 1)
        ELSE DoubleOfMant(neg, rounded, exp))))

\* The number n >= 0 as a double.
DoubleOfInt(n) == RoundToDouble(FALSE, BigOfInt(n), 0, FALSE)

\* x * y for finite x and y.
DoubleTimes(x, y) == RoundToDouble(x.neg # y.neg, BigMul(x.mant, y.mant), x.exp + y.exp, FALSE)

\* x + y and x > y for finite x and y that are not negative.
DoubleAdd(x, y) ==
  LET s == Min(x.exp, y.exp)
  IN RoundToDouble(FALSE, BigAdd(BigShiftLeft(x.mant, x.exp - s), BigShiftLeft(y.mant, y.exp - s)),
                   s, FALSE)
DoubleGreater(x, y) ==
  LET s == Min(x.exp, y.exp)
  IN BigLess(BigShiftLeft(y.mant, y.exp - s), BigShiftLeft(x.mant, x.exp - s))

\* The number that the decimal digits lo..hi of ds write (each is 0..9): at
\* most nine of them, and any number of them by halves.
RECURSIVE IntOfDigits(_, _, _)
IntOfDigits(ds, lo, hi) == IF lo > hi THEN 0 ELSE 10 * IntOfDigits(ds, lo, hi - 1) + ds[hi]
RECURSIVE BigOfDigits(_, _, _)
BigOfDigits(ds, lo, hi) ==
  IF hi - lo < 9 THEN BigOfInt(IntOfDigits(ds, lo, hi))
  ELSE LET mid == (lo + hi) \div 2
       IN BigAdd(BigMul(BigOfDigits(ds, lo, mid), BigPow10(hi - mid)),
                 BigOfDigits(ds, mid + 1, hi))

\* The double nearest to plus or minus ds * 10^e10, ds a sequence of decimal
\* digits: what the engine makes of a numeric literal.  A number of 10^310
\* or more is beyond every finite double and one below 10^-330 is nearer to
\* zero than to any other.  No point where the nearest double changes has
\* more than 767 significant digits, so what follows the first 800 counts
\* only as being zero or not: a final 1 stands for it.  Below 1 the number
\* is a / b * 2^(e10 - j) with b = 5^(-e10) and a = ds * 2^j, j chosen so
\* that the whole part of a / b has 56 or 57 bits.
DoubleOfDecimal(neg, ds, e10) ==
  IF \A i \in 1..Len(ds) : ds[i] = 0 THEN DoubleZero(neg)
  ELSE
    LET first == CHOOSE i \in 1..Len(ds) : ds[i] # 0 /\ \A j \in 1..(i - 1) : ds[j] = 0
        count == Len(ds) - first + 1
        long == count > 800
        used == IF ~long THEN SubSeq(ds, first, Len(ds))
                ELSE SubSeq(ds, first, first + 799)
                       \o (IF \E i \in (first + 800)..Len(ds) : ds[i] # 0 THEN <<1>> ELSE <<0>>)
        e == e10 + count - Len(used)
    IN IF count + e10 > 310 THEN DoubleInfinity(neg)
       ELSE IF count + e10 < -330 THEN DoubleZero(neg)
       ELSE
         Bind(BigOfDigits(used, 1, Len(used)), LAMBDA d :
           IF e >= 0 THEN RoundToDouble(neg, BigMul(d, BigPow5(e)), e, FALSE)
           ELSE
             Bind(BigPow5(-e), LAMBDA b :
             Bind(56 + BigBitLength(b) - BigBitLength(d), LAMBDA j :
             Bind(IF j >= 0 THEN BigShiftLeft(d, j) ELSE BigShiftRight(d, -j), LAMBDA a :
             Bind(BigQuotient(a, b, BigBitLength(a) - BigBitLength(b), 0, <<>>), LAMBDA q :
               RoundToDouble(neg, q, e - j,
                             BigMul(q, b) # a \/ (j < 0 /\ ~BigLowBitsZero(d, -j))))))))

\* The literal 1.3.
OnePointThree == DoubleOfDecimal(FALSE, <<1, 3>>, -1)

\* The decimal digits of n >= 0 as characters.
RECURSIVE IntToString(_)
IntToString(n) == IF n < 10 THEN <<Digits[n + 1]>> ELSE IntToString(n \div 10) \o <<Digits[(n % 10) + 1]>>

\* The shortest decimal digits that identify the positive finite double x,
\* and the power of ten they are scaled by: digits d1 d2 .. dk and n with
\* 0.d1d2..dk * 10^n nearest to x among those of k digits, k the least for
\* which that number rounds to x.  The number is r/s, the gaps to the
\* neighbouring doubles are 2*below/s and 2*above/s; a digit is produced by
\* each step until what is left falls within half a gap (low: the digits so
\* far round to x; high: so do the digits with the last one raised).
ShortestStep(r, s, below, above, even) ==
  Bind(BigMulSmall(r, 10), LAMBDA r10 :
  Bind(Cardinality({c \in 1..9 : BigLeq(BigMulSmall(s, c), r10)}), LAMBDA digit :
  Bind(BigSub(r10, BigMulSmall(s, digit)), LAMBDA rest :
  Bind(BigMulSmall(below, 10), LAMBDA below10 :
  Bind(BigMulSmall(above, 10), LAMBDA above10 :
  Bind(BigAdd(rest, above10), LAMBDA upper :
  Bind(BigMulSmall(rest, 2), LAMBDA twice :
    [digit |-> digit, rest |-> rest, below |-> below10, above |-> above10,
     low |-> BigLeq(rest, below10) /\ (even \/ rest # below10),
     high |-> BigLeq(s, upper) /\ (even \/ s # upper),
     roundUp |-> BigLess(s, twice) \/ (twice = s /\ digit % 2 = 1)])))))))
RECURSIVE ShortestDigits(_, _, _, _, _, _)
ShortestDigits(r, s, below, above, even, acc) ==
  Bind(ShortestStep(r, s, below, above, even), LAMBDA st :
    IF ~st.low /\ ~st.high
      THEN ShortestDigits(st.rest, s, st.below, st.above, even, Append(acc, st.digit))
    ELSE IF st.low /\ ~st.high THEN Append(acc, st.digit)
    ELSE IF st.high /\ ~st.low THEN Append(acc, st.digit + 1)
    ELSE Append(acc, IF st.roundUp THEN st.digit + 1 ELSE st.digit))

\* Whether top / s, the upper end of the range of a double, is below 10^k
\* (or at it, when that end does not round to the double).
BelowPow10(top, s, even, k) ==
  IF k >= 0 THEN Bind(BigMul(s, BigPow10(k)), LAMBDA p : BigLeq(top, p) /\ (even => top # p))
  ELSE Bind(BigMul(top, BigPow10(-k)), LAMBDA p : BigLeq(p, s) /\ (even => p # s))

ShortestDecimal(x) ==
  LET \* 2^52, the least mant of a double that is not subnormal: the double
      \* below it is at half the distance of the one above.
      unit == IF x.mant = <<0, 0, 0, 0, 0, 4>> /\ x.exp > -1074 THEN 4 ELSE 2
      even == BigBit(x.mant, 0) = 0
      guess == ((x.exp + BigBitLength(x.mant) - 1) * 30103) \div 100000
  IN Bind(BigShiftLeft(BigMulSmall(x.mant, unit), Max(x.exp, 0)), LAMBDA r :
     Bind(BigShiftLeft(<<unit>>, Max(-x.exp, 0)), LAMBDA s :
     Bind(BigShiftLeft(<<1>>, Max(x.exp, 0)), LAMBDA below :
     Bind(BigMulSmall(below, unit \div 2), LAMBDA above :
     Bind(BigAdd(r, above), LAMBDA top :
     Bind(CHOOSE k \in (guess - 1)..(guess + 2) :
            BelowPow10(top, s, even, k) /\ ~BelowPow10(top, s, even, k - 1), LAMBDA n :
     Bind(BigPow10(Max(-n, 0)), LAMBDA up :
       [digits |-> ShortestDigits(BigMul(r, up), BigMul(s, BigPow10(Max(n, 0))),
                                  BigMul(below, up), BigMul(above, up), even, <<>>),
        n |-> n])))))))

\* Number::toString(x): the text JavaScript gives for a number.
NumberToString(x) ==
  IF x.inf THEN (IF x.neg THEN <<"-">> ELSE <<>>) \o <<"I","n","f","i","n","i","t","y">>
  ELSE IF x.mant = <<>> THEN <<"0">>
  ELSE
    Bind(ShortestDecimal(x), LAMBDA sd :
      LET k == Len(sd.digits)
          n == sd.n
          ds == [i \in 1..k |-> Digits[sd.digits[i] + 1]]
          e == IF n >= 1 THEN n - 1 ELSE 1 - n
          text ==
            IF k <= n /\ n <= 21 THEN ds \o [i \in 1..(n - k) |-> "0"]
            ELSE IF 0 < n /\ n <= 21 THEN SubSeq(ds, 1, n) \o <<".">> \o SubSeq(ds, n + 1, k)
            ELSE IF -6 < n /\ n <= 0 THEN <<"0", ".">> \o [i \in 1..(-n) |-> "0"] \o ds
            ELSE SubSeq(ds, 1, 1) \o (IF k = 1 THEN <<>> ELSE <<".">> \o SubSeq(ds, 2, k))
                   \o <<"e", IF n >= 1 THEN "+" ELSE "-">> \o IntToString(e)
      IN (IF x.neg THEN <<"-">> ELSE <<>>) \o text)

----------------------------------------------------------------------------
(* metadata-generator.ts: constants *)

DEFAULT_TOOL_NAME == <<"s","e","a","r","c","h","-","d","o","c","s">>
TOOL_PREFIX == <<"s","e","a","r","c","h","-">>
TOOL_SUFFIX == <<"-","d","o","c","s">>
DEFAULT_DESCRIPTION_PREFIX == <<"D","o","c","u","m","e","n","t",":"," ">>
MCP_TOOL_NAME_MAX_LENGTH == 64
MCP_TOOL_NAME_PREFIX == <<"m","c","p","_","_">>
MCP_TOOL_NAME_SEPARATOR == <<"_","_">>
\* The literal 'default-server' of validateMcpToolName.
DEFAULT_SERVER_NAME == <<"d","e","f","a","u","l","t","-","s","e","r","v","e","r">>

\* The literal pieces of the error message template of validateMcpToolNameLength.
MSG_EXCEEDS == <<"M","C","P","u30c4","u30fc","u30eb","u540d","u304c","6","4",
                 "u6587","u5b57","u5236","u9650","u3092","u8d85","u3048","u3066",
                 "u3044","u307e","u3059",":"," ","\"">>
MSG_QUOTE_PAREN == <<"\""," ","(">>
MSG_CHARS_PAREN_NL == <<"u6587","u5b57",")","\n">>
MSG_LIMIT == <<"u5236","u9650",":"," ">>
MSG_CHARS_NL == <<"u6587","u5b57","\n">>
MSG_SERVER == <<"u30b5","u30fc","u30d0","u30fc","u540d",":"," ","\"">>
MSG_TOOL == <<"u30c4","u30fc","u30eb","u540d",":"," ","\"">>
MSG_SHORTEN == <<"u30d7","u30ed","u30b8","u30a7","u30af","u30c8","u540d","u307e",
                 "u305f","u306f","u30c4","u30fc","u30eb","u540d","u3092","u77ed",
                 "u304f","u3057","u3066","u304f","u3060","u3055","u3044","u3002">>

\* Number -> decimal string, as template interpolation `${n}` of a non-negative
\* integer does.
RECURSIVE ToDecimal(_)
ToDecimal(n) ==
  IF n < 10 THEN <<Digits[n + 1]>>
  ELSE ToDecimal(n \div 10) \o <<Digits[(n % 10) + 1]>>

\* The outcome of a call: a returned value or a thrown Error(message).
Return(v) == [threw |-> FALSE, value |-> v]
Throw(m) == [threw |-> TRUE, message |-> m]

----------------------------------------------------------------------------
(* metadata-generator.ts: canonicalisation, tool name, validation *)

\* convertToKebabCase with the strip pattern applied without the g flag.
convertToKebabCaseFirstOnly(name) ==
  stripFirstNonAlnumHyphen(replaceSpaces(toLowerCase(name)))

\* convertToKebabCase with the strip pattern /[^a-z0-9]/g (hyphens removed too).
convertToKebabCaseNoHyphen(name) ==
  SelectSeq(replaceSpaces(toLowerCase(name)), LAMBDA c : c \in AlnumHyphenChars \ {"-"})

\* convertToKebabCase without toLowerCase and with a case-insensitive strip
\* pattern (/[^a-z0-9-]/gi): upper-case letters survive.
convertToKebabCaseKeepUpper(name) ==
  SelectSeq(replaceSpaces(name),
            LAMBDA c : c \in AlnumHyphenChars \cup Range(UpperLetters))

convertToKebabCase(name) ==
  stripNonAlnumHyphen(replaceSpaces(toLowerCase(name)))

NameTooLongMessage(fullMcpToolName, serverName, toolName) ==
  MSG_EXCEEDS \o fullMcpToolName \o MSG_QUOTE_PAREN
    \o ToDecimal(Len(fullMcpToolName)) \o MSG_CHARS_PAREN_NL
  \o MSG_LIMIT \o ToDecimal(MCP_TOOL_NAME_MAX_LENGTH) \o MSG_CHARS_NL
  \o MSG_SERVER \o serverName \o MSG_QUOTE_PAREN
    \o ToDecimal(Len(serverName)) \o MSG_CHARS_PAREN_NL
  \o MSG_TOOL \o toolName \o MSG_QUOTE_PAREN
    \o ToDecimal(Len(toolName)) \o MSG_CHARS_PAREN_NL
  \o MSG_SHORTEN

\* validateMcpToolNameLength comparing with >= instead of >.
validateMcpToolNameLengthGeq(serverName, toolName) ==
  LET fullMcpToolName ==
        MCP_TOOL_NAME_PREFIX \o serverName \o MCP_TOOL_NAME_SEPARATOR \o toolName
  IN IF Len(fullMcpToolName) >= MCP_TOOL_NAME_MAX_LENGTH
       THEN Throw(NameTooLongMessage(fullMcpToolName, serverName, toolName))
       ELSE Return(fullMcpToolName)

\* validateMcpToolNameLength checking the tool name's own length only.
validateMcpToolNameLengthToolOnly(serverName, toolName) ==
  LET fullMcpToolName ==
        MCP_TOOL_NAME_PREFIX \o serverName \o MCP_TOOL_NAME_SEPARATOR \o toolName
  IN IF Len(toolName) > MCP_TOOL_NAME_MAX_LENGTH
       THEN Throw(NameTooLongMessage(fullMcpToolName, serverName, toolName))
       ELSE Return(fullMcpToolName)

\* validateMcpToolNameLength reporting the tool name's length as the server name's.
validateMcpToolNameLengthWrongLen(serverName, toolName) ==
  LET fullMcpToolName ==
        MCP_TOOL_NAME_PREFIX \o serverName \o MCP_TOOL_NAME_SEPARATOR \o toolName
  IN IF Len(fullMcpToolName) > MCP_TOOL_NAME_MAX_LENGTH
       THEN Throw(MSG_EXCEEDS \o fullMcpToolName \o MSG_QUOTE_PAREN
                    \o ToDecimal(Len(fullMcpToolName)) \o MSG_CHARS_PAREN_NL
                  \o MSG_LIMIT \o ToDecimal(MCP_TOOL_NAME_MAX_LENGTH) \o MSG_CHARS_NL
                  \o MSG_SERVER \o serverName \o MSG_QUOTE_PAREN
                    \o ToDecimal(Len(toolName)) \o MSG_CHARS_PAREN_NL
                  \o MSG_TOOL \o toolName \o MSG_QUOTE_PAREN
                    \o ToDecimal(Len(toolName)) \o MSG_CHARS_PAREN_NL
                  \o MSG_SHORTEN)
       ELSE Return(fullMcpToolName)

validateMcpToolNameLength(serverName, toolName) ==
  LET fullMcpToolName ==
        MCP_TOOL_NAME_PREFIX \o serverName \o MCP_TOOL_NAME_SEPARATOR \o toolName
  IN IF Len(fullMcpToolName) > MCP_TOOL_NAME_MAX_LENGTH
       THEN Throw(NameTooLongMessage(fullMcpToolName, serverName, toolName))
       ELSE Return(fullMcpToolName)

\* generateToolName wrapping the raw project name instead of its kebab form.
generateToolNameRaw(name) ==
  IF convertToKebabCase(name) = <<>> THEN DEFAULT_TOOL_NAME
  ELSE TOOL_PREFIX \o name \o TOOL_SUFFIX

\* generateToolName without the empty-name fallback.
generateToolNameNoDefault(name) ==
  TOOL_PREFIX \o convertToKebabCase(name) \o TOOL_SUFFIX

generateToolName(name) ==
  LET kebabProjectName == convertToKebabCase(name)
  IN IF kebabProjectName = <<>> THEN DEFAULT_TOOL_NAME
     ELSE TOOL_PREFIX \o kebabProjectName \o TOOL_SUFFIX

\* The void result of validateMcpToolName.
Undefined == [undefined |-> TRUE]

\* validateMcpToolName taking the project name as it is for the server name.
validateMcpToolNameRawServer(name, toolName) ==
  LET serverName == IF name # <<>> THEN name ELSE DEFAULT_SERVER_NAME
      r == validateMcpToolNameLength(serverName, toolName)
  IN IF r.threw THEN r ELSE Return(Undefined)

validateMcpToolName(name, toolName) ==
  LET kebab == convertToKebabCase(name)
      serverName == IF kebab # <<>> THEN kebab ELSE DEFAULT_SERVER_NAME
      r == validateMcpToolNameLength(serverName, toolName)
  IN IF r.threw THEN r ELSE Return(Undefined)

----------------------------------------------------------------------------
(* Node's path.relative / path.basename (POSIX) and extractTitleFromMarkdown *)

\* The positions of the separators c in s, in order, with 0 before and
\* Len(s)+1 after: the fields of s.split(c) lie between consecutive entries.
Cuts(s, seps) ==
  LET at == {i \in 1..Len(s) : s[i] \in seps}
      RECURSIVE Sorted(_)
      Sorted(S) == IF S = {} THEN <<>>
                   ELSE LET m == CHOOSE x \in S : \A y \in S : x <= y
                        IN <<m>> \o Sorted(S \ {m})
  IN <<0>> \o Sorted(at) \o <<Len(s) + 1>>

\* s.split(c) for a one-character separator.
Split(s, seps) ==
  LET cuts == Cuts(s, seps)
  IN [k \in 1..(Len(cuts) - 1) |-> SubSeq(s, cuts[k] + 1, cuts[k+1] - 1)]

\* String.prototype.trim.
Trim(s) ==
  LET keep == {i \in 1..Len(s) : s[i] \notin WhitespaceChars}
  IN IF keep = {} THEN <<>>
     ELSE SubSeq(s, CHOOSE i \in keep : \A j \in keep : i <= j,
                    CHOOSE i \in keep : \A j \in keep : i >= j)

\* The process's working directory, against which path.relative resolves
\* relative arguments.
Cwd == <<"/", "w">>

\* path.resolve of one argument: the normalised segments of the absolute path.
RECURSIVE NormSegments(_, _)
NormSegments(segs, acc) ==
  IF segs = <<>> THEN acc
  ELSE LET h == Head(segs)
       IN IF h = <<>> \/ h = <<".">> THEN NormSegments(Tail(segs), acc)
          ELSE IF h = <<".", ".">>
            THEN NormSegments(Tail(segs),
                              IF acc = <<>> THEN acc ELSE SubSeq(acc, 1, Len(acc) - 1))
          ELSE NormSegments(Tail(segs), Append(acc, h))

ResolveSegments(p) ==
  LET abs == IF p # <<>> /\ p[1] = "/" THEN p ELSE Cwd \o <<"/">> \o p
  IN NormSegments(Split(abs, {"/"}), <<>>)

RECURSIVE JoinWith(_, _)
JoinWith(parts, sep) ==
  IF parts = <<>> THEN <<>>
  ELSE IF Len(parts) = 1 THEN parts[1]
  ELSE parts[1] \o sep \o JoinWith(Tail(parts), sep)

\* path.relative giving the last segment of the target only.
PathRelativeLastSegment(from, to) ==
  LET t == ResolveSegments(to)
  IN IF t = <<>> THEN <<>> ELSE t[Len(t)]

\* path.relative(from, to).
PathRelative(from, to) ==
  LET f == ResolveSegments(from)
      t == ResolveSegments(to)
      common == CHOOSE n \in 0..Len(f) :
                  /\ n <= Len(t)
                  /\ \A i \in 1..n : f[i] = t[i]
                  /\ (n < Len(f) /\ n < Len(t) => f[n+1] # t[n+1])
      ups == [i \in 1..(Len(f) - common) |-> <<".", ".">>]
  IN JoinWith(ups \o SubSeq(t, common + 1, Len(t)), <<"/">>)

\* path.basename(p): the last portion of p, trailing separators ignored.
PathBasename(p) ==
  LET nonSep == {i \in 1..Len(p) : p[i] # "/"}
  IN IF nonSep = {} THEN <<>>
     ELSE LET last == CHOOSE i \in nonSep : \A j \in nonSep : i >= j
              seps == {i \in 1..last : p[i] = "/"}
              start == IF seps = {} THEN 1
                       ELSE 1 + CHOOSE i \in seps : \A j \in seps : i >= j
          IN SubSeq(p, start, last)

\* What '.' does not match in a JavaScript regular expression.
LineTerminators == {"\n", "\r", "u2028", "u2029"}

\* trimmedLine.match(/^#\s+(.+)$/): Some(group 1) or None.
TitleMatch(line) ==
  IF Len(line) < 3 \/ line[1] # "#" \/ line[2] \notin WhitespaceChars THEN None
  ELSE LET k == CHOOSE i \in 2..Len(line) :
                  /\ \A j \in 2..i : line[j] \in WhitespaceChars
                  /\ (i = Len(line) \/ line[i+1] \notin WhitespaceChars)
           \* \s+ may give back whitespace to (.+); the match needs a non-empty
           \* rest without line terminators.
           starts == {i \in 3..(k+1) : /\ i <= Len(line)
                                       /\ \A j \in i..Len(line) : line[j] \notin LineTerminators}
       IN IF starts = {} THEN None
          ELSE Some(SubSeq(line, CHOOSE i \in starts : \A j \in starts : i >= j, Len(line)))

\* extractTitleFromMarkdown (markdown-parser): '' when there is no title line.
RECURSIVE FirstTitle(_)
FirstTitle(lines) ==
  IF lines = <<>> THEN <<>>
  ELSE LET trimmedLine == Trim(Head(lines))
           m == IF trimmedLine = <<>> THEN None ELSE TitleMatch(trimmedLine)
       IN IF m # None /\ m[1] # <<>> THEN Trim(m[1]) ELSE FirstTitle(Tail(lines))

extractTitleFromMarkdown(content) ==
  IF content = <<>> THEN <<>> ELSE FirstTitle(Split(content, {"\n"}))

----------------------------------------------------------------------------
(* metadata-generator.ts: tool description, tool paths, metadata *)

TOOL_DESCRIPTION_PREAMBLE ==
  <<"T","h","i","s"," ","t","o","o","l"," ","p","r","o","v","i","d","e","s"," ",
    "a","c","c","e","s","s"," ","t","o"," ","d","o","c","u","m","e","n","t","s"," ",
    "o","n"," ","t","h","e"," ","f","o","l","l","o","w","i","n","g"," ",
    "m","a","i","n"," ","t","o","p","i","c","s",":","\n">>
TOOL_DESCRIPTION_CLOSING ==
  <<"\n","Y","o","u"," ","c","a","n"," ","r","e","t","r","i","e","v","e"," ",
    "i","n","f","o","r","m","a","t","i","o","n"," ","b","y"," ",
    "s","p","e","c","i","f","y","i","n","g"," ","a"," ","s","p","e","c","i","f","i","c"," ",
    "d","o","c","u","m","e","n","t"," ","p","a","t","h",".">>

\* TopicBullets listing the topics last to first.
RECURSIVE TopicBulletsReversed(_)
TopicBulletsReversed(topics) ==
  IF topics = <<>> THEN <<>>
  ELSE TopicBulletsReversed(Tail(topics)) \o <<"-", " ">> \o Head(topics) \o <<"\n">>

RECURSIVE TopicBullets(_)
TopicBullets(topics) ==
  IF topics = <<>> THEN <<>>
  ELSE <<"-", " ">> \o Head(topics) \o <<"\n">> \o TopicBullets(Tail(topics))

generateToolDescription(sr) ==
  sr.summary \o <<"\n", "\n">> \o TOOL_DESCRIPTION_PREAMBLE
    \o TopicBullets(sr.topics) \o TOOL_DESCRIPTION_CLOSING

\* createToolPath keeping a supplied description that is empty.
createToolPathKeepsEmptyDescription(file, root) ==
  LET relativePath == PathRelative(root, file.path)
      title == extractTitleFromMarkdown(file.content)
  IN [path |-> relativePath,
      description |-> IF file.description # None
                        THEN file.description[1]
                        ELSE DEFAULT_DESCRIPTION_PREFIX \o PathBasename(relativePath),
      originalPath |-> file.path,
      title |-> IF title # <<>> THEN Some(title) ELSE None]

\* createToolPath taking the supplied title when there is one.
createToolPathTrustsTitle(file, root) ==
  LET relativePath == PathRelative(root, file.path)
      title == IF file.title # None /\ file.title[1] # <<>>
                 THEN file.title[1] ELSE extractTitleFromMarkdown(file.content)
  IN [path |-> relativePath,
      description |-> IF file.description # None /\ file.description[1] # <<>>
                        THEN file.description[1]
                        ELSE DEFAULT_DESCRIPTION_PREFIX \o PathBasename(relativePath),
      originalPath |-> file.path,
      title |-> IF title # <<>> THEN Some(title) ELSE None]

createToolPath(file, root) ==
  LET relativePath == PathRelative(root, file.path)
      title == extractTitleFromMarkdown(file.content)
  IN [path |-> relativePath,
      description |-> IF file.description # None /\ file.description[1] # <<>>
                        THEN file.description[1]
                        ELSE DEFAULT_DESCRIPTION_PREFIX \o PathBasename(relativePath),
      originalPath |-> file.path,
      title |-> IF title # <<>> THEN Some(title) ELSE None]

\* generateMcpToolMetadata keeping one entry per relative path.
generateMcpToolMetadataOnePerPath(name, sr, files, root) ==
  LET toolName == generateToolName(name)
      v == validateMcpToolName(name, toolName)
      all == [i \in 1..Len(files) |-> createToolPath(files[i], root)]
      kept == {i \in 1..Len(files) : \A j \in 1..(i - 1) : all[j].path # all[i].path}
  IN IF v.threw THEN v
     ELSE Return([toolName |-> toolName,
                  toolDescription |-> generateToolDescription(sr),
                  availablePaths |->
                    [k \in 1..Cardinality(kept) |->
                       all[CHOOSE i \in kept : Cardinality({j \in kept : j <= i}) = k]]])

generateMcpToolMetadata(name, sr, files, root) ==
  LET toolName == generateToolName(name)
      v == validateMcpToolName(name, toolName)
  IN IF v.threw THEN v
     ELSE Return([toolName |-> toolName,
                  toolDescription |-> generateToolDescription(sr),
                  availablePaths |-> [i \in 1..Len(files) |-> createToolPath(files[i], root)]])

----------------------------------------------------------------------------
(* Inputs of the name functions *)

\* n copies of the code unit c.
Rep(c, n) == [i \in 1..n |-> c]

\* All strings over alphabet A of length at most n.
RECURSIVE StringsUpTo(_, _)
StringsUpTo(A, n) ==
  IF n = 0 THEN {<<>>}
  ELSE LET shorter == StringsUpTo(A, n - 1)
       IN shorter \cup {Append(s, c) : s \in {t \in shorter : Len(t) = n - 1}, c \in A}

\* Code units a project name is built from: lower case, upper case, digit,
\* hyphen, two kinds of whitespace (SPACE and u2028 LINE SEPARATOR),
\* punctuation, a non-Latin letter, and the two non-ASCII code units that
\* toLowerCase maps onto ASCII letters.
NameChars == {"b", "Z", "7", "-", " ", "u2028", "!", "u3042", "u212a", "u0130"}

\* Longest free-form part of a project name.
MaxRawLen == 3

\* Lengths of the run of "a" appended to the free-form part, so that canonical
\* names on both sides of the length budget occur.
PadLens == {0, 20, 22}

ProjectNames == {raw \o Rep("a", n) : raw \in StringsUpTo(NameChars, MaxRawLen), n \in PadLens}

ServerNameOf(name) ==
  IF convertToKebabCase(name) # <<>> THEN convertToKebabCase(name) ELSE DEFAULT_SERVER_NAME

\* Tool names handed to validateMcpToolName for a project name: the derived
\* one, the empty one, and runs of "x" around the length at which the
\* composite reaches the ceiling.
ToolNameArgs(name) ==
  LET room == MCP_TOOL_NAME_MAX_LENGTH - Len(MCP_TOOL_NAME_PREFIX)
                - Len(ServerNameOf(name)) - Len(MCP_TOOL_NAME_SEPARATOR)
  IN {generateToolName(name), <<>>}
       \cup {Rep("x", n) : n \in {m \in (room - 1)..(room + 1) : m >= 0}}

SummarizationResults ==
  { [projectName |-> <<"p">>, summary |-> <<"S">>, topics |-> <<>>],
    [projectName |-> <<"p">>, summary |-> <<"S", "u3042">>,
     topics |-> << <<"t", "1">>, <<"t", "2">> >>] }

Doc(path, content, title, description) ==
  [path |-> path, content |-> content, title |-> title, description |-> description]

DocA == Doc(<<"/","d","/","a",".","m","d">>, <<"#"," ","A","\n","x">>,
            Some(<<"A">>), Some(<<"d","a">>))
DocB == Doc(<<"/","d","/","s","/","b",".","m","d">>, <<"x">>, None, None)

\* A second path to the file of DocA: another string, the same relative path.
DocC == Doc(<<"/","d","/",".","/","a",".","m","d">>, <<"x">>, None, None)

FileLists == { <<>>, <<DocA>>, <<DocA, DocB>>, <<DocB, DocA, DocC>> }

RootDirs == { <<"/","d">> }

\* The reply of the service to one request: the call fails with a message,
\* or resolves to a response whose content is a list of blocks.
Reply(failed, message, isArray, content) ==
  [failed |-> failed, message |-> message, isArray |-> isArray, content |-> content]
NoReply == Reply(FALSE, <<>>, TRUE, <<>>)

\* main does not run.
MainOff ==
  /\ customProjectName = None
  /\ pcMain = "off"
  /\ discovered = <<>>
  /\ mainIdx = 1
  /\ calls = <<>>
  /\ exitStatus = "running"

\* Neither summarizeDocuments nor generateDocumentDescription runs.
LlmOff ==
  /\ apiKey = None
  /\ pcLlm = "off"
  /\ requests = <<>>
  /\ reply = NoReply
  /\ document = Doc(<<>>, <<>>, None, None)

----------------------------------------------------------------------------
(* The exported functions, each called once on a chosen input *)

InitNames ==
  /\ op = "none"
  /\ projectName \in ProjectNames
  /\ toolNameArg = <<>>
  /\ summarizationResult = [projectName |-> <<>>, summary |-> <<>>, topics |-> <<>>]
  /\ markdownFiles = <<>>
  /\ docsRootDir = <<>>
  /\ outcome = Return(Undefined)
  /\ impl = "inline"
  /\ documents = <<>>
  /\ pcPack = "off"
  /\ idx = 1
  /\ combinedContent = <<>>
  /\ totalTokens = DoubleOfInt(0)
  /\ usedDocuments = 0
  /\ LlmOff
  /\ MainOff

\* convertToKebabCase(projectName); the same chain is written inline in main
\* for the project-name override and for the suggested name.
CallConvertToKebabCase ==
  /\ op = "none"
  /\ op' = "convertToKebabCase"
  /\ outcome' = Return(convertToKebabCase(projectName))
  /\ UNCHANGED <<projectName, toolNameArg, summarizationResult, markdownFiles, docsRootDir>>
  /\ UNCHANGED <<packVars, llmVars, mainVars>>

CallGenerateToolName ==
  /\ op = "none"
  /\ op' = "generateToolName"
  /\ outcome' = Return(generateToolName(projectName))
  /\ UNCHANGED <<projectName, toolNameArg, summarizationResult, markdownFiles, docsRootDir>>
  /\ UNCHANGED <<packVars, llmVars, mainVars>>

CallValidateMcpToolName ==
  /\ op = "none"
  /\ \E t \in ToolNameArgs(projectName) :
       /\ toolNameArg' = t
       /\ outcome' = validateMcpToolName(projectName, t)
  /\ op' = "validateMcpToolName"
  /\ UNCHANGED <<projectName, summarizationResult, markdownFiles, docsRootDir>>
  /\ UNCHANGED <<packVars, llmVars, mainVars>>

CallGenerateMcpToolMetadata ==
  /\ op = "none"
  /\ \E sr \in SummarizationResults, files \in FileLists, root \in RootDirs :
       /\ summarizationResult' = sr
       /\ markdownFiles' = files
       /\ docsRootDir' = root
       /\ outcome' = generateMcpToolMetadata(projectName, sr, files, root)
  /\ op' = "generateMcpToolMetadata"
  /\ UNCHANGED <<projectName, toolNameArg>>
  /\ UNCHANGED <<packVars, llmVars, mainVars>>

NextNames ==
  \/ CallConvertToKebabCase
  \/ CallGenerateToolName
  \/ CallValidateMcpToolName
  \/ CallGenerateMcpToolMetadata

SpecNames == InitNames /\ [][NextNames]_vars

----------------------------------------------------------------------------
(* llm-summarizer.ts: the token-budgeted packer of summarizeDocuments *)

MAX_PROMPT_TOKENS == 150000
DOCUMENT_SEPARATOR == <<"\n","\n","-","-","-","\n","\n">>
TRUNCATION_MESSAGE ==
  <<"\n","\n","[","C","o","n","t","e","n","t"," ","t","r","u","n","c","a","t","e","d"," ",
    "b","e","c","a","u","s","e"," ","i","t"," ","w","a","s"," ","t","o","o"," ",
    "l","o","n","g","]">>
FILE_PATH_LABEL == <<"F","i","l","e"," ","p","a","t","h",":"," ">>
TITLE_LABEL == <<"T","i","t","l","e",":"," ">>

\* The class of JAPANESE_CHAR_PATTERN: U+3000-U+303F, U+3040-U+309F, U+30A0-U+30FF,
\* U+FF00-U+FF9F, U+4E00-U+9FAF.
JapaneseChars == {U(n) : n \in (12288..12543) \cup (65280..65439) \cup (19968..40879)}

\* text.split(/\s+/).length: one more than the number of maximal whitespace runs.
SplitOnWhitespaceLength(text) ==
  Cardinality({i \in 1..Len(text) :
                 /\ text[i] \in WhitespaceChars
                 /\ (i = 1 \/ text[i-1] \notin WhitespaceChars)}) + 1

\* estimateTokens / estimateTokenCount: the character count when the text
\* has a Japanese character, else the number of pieces times 1.3.
estimateTokens(text) ==
  IF \E i \in 1..Len(text) : text[i] \in JapaneseChars
    THEN DoubleOfInt(Len(text))
    ELSE DoubleTimes(DoubleOfInt(SplitOnWhitespaceLength(text)), OnePointThree)

\* The serialized form of a document: docContent.
DocContent(doc) ==
  LET titleInfo == IF doc.title # None /\ doc.title[1] # <<>>
                     THEN TITLE_LABEL \o doc.title[1] \o <<"\n">>
                     ELSE <<>>
  IN FILE_PATH_LABEL \o doc.path \o <<"\n">> \o titleInfo \o <<"\n">> \o doc.content

\* s.substring(0, n).
Substring0(s, n) == SubSeq(s, 1, IF Len(s) < n THEN Len(s) ELSE n)

----------------------------------------------------------------------------
(* Inputs of the packer *)

PackPath == <<"/","d","/","a",".","m","d">>

\* Length of "File path: /d/a.md\n\n", the serialized form before the content.
HeaderLen == Len(FILE_PATH_LABEL) + Len(PackPath) + 2

\* n words "w" separated by single spaces.
Words(n) == [i \in 1..(2 * n - 1) |-> IF i % 2 = 1 THEN "w" ELSE " "]

\* Japanese text whose serialized form costs exactly the limit.
JExact == Doc(PackPath, Rep("u3042", MAX_PROMPT_TOKENS - HeaderLen), None, None)
\* Japanese text one character over the limit.
JOver == Doc(PackPath, Rep("u3042", MAX_PROMPT_TOKENS - HeaderLen + 1), None, None)
\* Japanese text costing half the limit (an empty title counts as no title).
JHalf == Doc(PackPath, Rep("u3042", (MAX_PROMPT_TOKENS \div 2) - HeaderLen), Some(<<>>), None)
\* English text whose word count times 1.3 is just over the limit
\* ("File", "path:", the path and the words: 115385 pieces, 150000.5).
WOver == Doc(PackPath, Words(((10 * MAX_PROMPT_TOKENS) \div 13) + 1 - 3), None, None)
\* English text just under the limit (115384 pieces, 149999.2).
WFit == Doc(PackPath, Words(((10 * MAX_PROMPT_TOKENS) \div 13) - 3), None, None)
\* English text costing just under half the limit in words (57003 pieces,
\* 74103.9) and 114019 characters long.
WMid == Doc(PackPath, Words(57000), None, None)
\* A short English document with a title.
WSmall == Doc(PackPath, Words(2), Some(<<"T">>), None)
\* Three documents whose estimates are 5.2, 131073.8 and 18921: 4 pieces,
\* 100826 pieces and 18921 Japanese characters.  The doubles 4 * 1.3 and
\* 100826 * 1.3 add up to 131079.00000000003.
WOne == Doc(PackPath, Words(1), None, None)
WMost == Doc(PackPath, Words(100826 - 3), None, None)
JRest == Doc(PackPath, Rep("u3042", 18921 - HeaderLen), None, None)

DocNames == {"JExact", "JOver", "JHalf", "WOver", "WFit", "WMid", "WSmall",
             "WOne", "WMost", "JRest"}

\* The documents by name.
Document(name) ==
  CASE name = "JExact" -> JExact
    [] name = "JOver" -> JOver
    [] name = "JHalf" -> JHalf
    [] name = "WOver" -> WOver
    [] name = "WFit" -> WFit
    [] name = "WMid" -> WMid
    [] name = "WSmall" -> WSmall
    [] name = "WOne" -> WOne
    [] name = "WMost" -> WMost
    [] name = "JRest" -> JRest

\* Longest document sequence handed to the packer.
MaxDocs == 3

RECURSIVE SeqsUpTo(_, _)
SeqsUpTo(S, n) ==
  IF n = 0 THEN {<<>>}
  ELSE LET shorter == SeqsUpTo(S, n - 1)
       IN shorter \cup {Append(q, x) : q \in {t \in shorter : Len(t) = n - 1}, x \in S}

\* The serialized form and the estimate of every document of the table,
\* computed once.
DocContentOf == [name \in DocNames |-> DocContent(Document(name))]
DocTokensOf == [name \in DocNames |-> estimateTokens(DocContentOf[name])]

\* combinedContent is held as the list of the pieces appended to it, each a
\* leading part of a document's docContent, the separator or the truncation
\* message; the string the code holds is their concatenation, ContentText.
DocPiece(name, n) == [piece |-> "doc", doc |-> name, chars |-> n]
SeparatorPiece == [piece |-> "separator", doc |-> "", chars |-> 0]
TruncationPiece == [piece |-> "truncation", doc |-> "", chars |-> 0]
PieceText(p) ==
  CASE p.piece = "doc" -> Substring0(DocContentOf[p.doc], p.chars)
    [] p.piece = "separator" -> DOCUMENT_SEPARATOR
    [] p.piece = "truncation" -> TRUNCATION_MESSAGE
RECURSIVE ContentText(_)
ContentText(pieces) ==
  IF pieces = <<>> THEN <<>>
  ELSE ContentText(SubSeq(pieces, 1, Len(pieces) - 1)) \o PieceText(pieces[Len(pieces)])

\* The loop's locals for the document it is at.
docContent == DocContentOf[documents[idx]]
docTokens == DocTokensOf[documents[idx]]

\* Whether adding the current document would exceed the limit.
WouldExceed == DoubleGreater(DoubleAdd(totalTokens, docTokens), DoubleOfInt(MAX_PROMPT_TOKENS))

\* The loop body when the document fits: append it and go on.
PackAdd ==
  /\ pcPack = "loop"
  /\ idx <= Len(documents)
  /\ ~WouldExceed
  /\ combinedContent' =
       (IF ContentText(combinedContent) # <<>>
          THEN Append(combinedContent, SeparatorPiece) ELSE combinedContent)
         \o <<DocPiece(documents[idx], Len(docContent))>>
  /\ totalTokens' = DoubleAdd(totalTokens, docTokens)
  /\ usedDocuments' = usedDocuments + 1
  /\ idx' = idx + 1
  /\ UNCHANGED <<impl, documents, pcPack>>
  /\ UNCHANGED <<nameVars, llmVars, mainVars>>

\* PackStop with continue in place of break: the document is skipped and the
\* loop goes on.
PackSkip ==
  /\ pcPack = "loop"
  /\ idx <= Len(documents)
  /\ WouldExceed
  /\ usedDocuments > 0
  /\ idx' = idx + 1
  /\ UNCHANGED <<impl, documents, pcPack, combinedContent, totalTokens, usedDocuments>>
  /\ UNCHANGED <<nameVars, llmVars, mainVars>>

\* The document does not fit and something is packed already: break.
PackStop ==
  /\ pcPack = "loop"
  /\ idx <= Len(documents)
  /\ WouldExceed
  /\ usedDocuments > 0
  /\ pcPack' = "done"
  /\ UNCHANGED <<impl, documents, idx, combinedContent, totalTokens, usedDocuments>>
  /\ UNCHANGED <<nameVars, llmVars, mainVars>>

\* PackTruncateFirst without its break: the loop goes on after the truncation.
PackTruncateFirstNoBreak ==
  /\ pcPack = "loop"
  /\ idx <= Len(documents)
  /\ WouldExceed
  /\ usedDocuments = 0
  /\ combinedContent' = <<DocPiece(documents[idx], MAX_PROMPT_TOKENS), TruncationPiece>>
  /\ usedDocuments' = 1
  /\ totalTokens' = IF impl = "extracted" THEN DoubleOfInt(MAX_PROMPT_TOKENS) ELSE totalTokens
  /\ idx' = idx + 1
  /\ UNCHANGED <<impl, documents, pcPack>>
  /\ UNCHANGED <<nameVars, llmVars, mainVars>>

\* PackTruncateFirst packing nothing: the loop breaks on the oversized first
\* document as it does on a later one.
PackTruncateFirstDropped ==
  /\ pcPack = "loop"
  /\ idx <= Len(documents)
  /\ WouldExceed
  /\ usedDocuments = 0
  /\ pcPack' = "done"
  /\ UNCHANGED <<impl, documents, idx, combinedContent, totalTokens, usedDocuments>>
  /\ UNCHANGED <<nameVars, llmVars, mainVars>>

\* PackTruncateFirst whose extracted copy cuts one character earlier.
PackTruncateFirstExtractedCutsShort ==
  /\ pcPack = "loop"
  /\ idx <= Len(documents)
  /\ WouldExceed
  /\ usedDocuments = 0
  /\ combinedContent' =
       <<DocPiece(documents[idx],
                  IF impl = "extracted" THEN MAX_PROMPT_TOKENS - 1 ELSE MAX_PROMPT_TOKENS),
         TruncationPiece>>
  /\ usedDocuments' = 1
  /\ totalTokens' = IF impl = "extracted" THEN DoubleOfInt(MAX_PROMPT_TOKENS) ELSE totalTokens
  /\ pcPack' = "done"
  /\ UNCHANGED <<impl, documents, idx>>
  /\ UNCHANGED <<nameVars, llmVars, mainVars>>

\* The first document alone does not fit: pack its first maxChars characters
\* and the truncation message, and break.  Only the extracted copy sets
\* totalTokens (to maxChars).
PackTruncateFirst ==
  /\ pcPack = "loop"
  /\ idx <= Len(documents)
  /\ WouldExceed
  /\ usedDocuments = 0
  /\ combinedContent' = <<DocPiece(documents[idx], MAX_PROMPT_TOKENS), TruncationPiece>>
  /\ usedDocuments' = 1
  /\ totalTokens' = IF impl = "extracted" THEN DoubleOfInt(MAX_PROMPT_TOKENS) ELSE totalTokens
  /\ pcPack' = "done"
  /\ UNCHANGED <<impl, documents, idx>>
  /\ UNCHANGED <<nameVars, llmVars, mainVars>>

\* The loop ran out of documents.
PackEnd ==
  /\ pcPack = "loop"
  /\ idx > Len(documents)
  /\ pcPack' = "done"
  /\ UNCHANGED <<impl, documents, idx, combinedContent, totalTokens, usedDocuments>>
  /\ UNCHANGED <<nameVars, llmVars, mainVars>>

InitPack ==
  /\ impl \in {"inline", "extracted"}
  /\ documents \in SeqsUpTo(DocNames, MaxDocs)
  /\ pcPack = "loop"
  /\ idx = 1
  /\ combinedContent = <<>>
  /\ totalTokens = DoubleOfInt(0)
  /\ usedDocuments = 0
  /\ op = "none"
  /\ projectName = <<>>
  /\ toolNameArg = <<>>
  /\ summarizationResult = [projectName |-> <<>>, summary |-> <<>>, topics |-> <<>>]
  /\ markdownFiles = <<>>
  /\ docsRootDir = <<>>
  /\ outcome = Return(Undefined)
  /\ LlmOff
  /\ MainOff

NextPack ==
  \/ PackAdd
  \/ PackStop
  \/ PackTruncateFirst
  \/ PackEnd

SpecPack == InitPack /\ [][NextPack]_vars

----------------------------------------------------------------------------
(* JSON.parse *)

\* A parsed value: kind is "string", "number", "true", "false", "null",
\* "array" or "object"; val is the string's code units, the number as a
\* double, the array's values, or the object's members in the order its
\* properties are enumerated.
JsonVal(kind, val) == [kind |-> kind, val |-> val]
JsonMember(key, value) == [kind |-> "member", key |-> key, value |-> value]

\* What a parsing step gives: whether it succeeded, the value, and the
\* position after it.
JsonOk(val, next) == [ok |-> TRUE, val |-> val, next |-> next]
JsonFail == [ok |-> FALSE, val |-> JsonVal("none", <<>>), next |-> 0]

\* JSON's own whitespace: space, tab, line feed, carriage return.
JsonWhitespace == {" ", "\t", "\n", "\r"}

\* The control characters U+0000..U+001F, which no string literal holds
\* unescaped.
JsonControlChars == {U(n) : n \in 0..31}

\* The first position from i on that holds no JSON whitespace.
JsonSkipWs(t, i) ==
  LET stops == {k \in i..Len(t) : t[k] \notin JsonWhitespace}
  IN IF stops = {} THEN Len(t) + 1
     ELSE CHOOSE k \in stops : \A m \in stops : k <= m

\* Whether pat occurs in t at position i.
At(t, i, pat) ==
  /\ i >= 1
  /\ i + Len(pat) - 1 <= Len(t)
  /\ SubSeq(t, i, i + Len(pat) - 1) = pat

\* The value of a hexadecimal digit, -1 for any other character.
HexValue(c) ==
  IF \E d \in 1..10 : Digits[d] = c THEN (CHOOSE d \in 1..10 : Digits[d] = c) - 1
  ELSE IF \E d \in 1..6 : LowerLetters[d] = c \/ UpperLetters[d] = c
    THEN 9 + (CHOOSE d \in 1..6 : LowerLetters[d] = c \/ UpperLetters[d] = c)
    ELSE -1

\* The characters that may follow a backslash, other than u, and what the
\* two stand for.
JsonEscapes ==
  [c \in {"\"", "\\", "/", "b", "f", "n", "r", "t"} |->
     IF c = "b" THEN U(8) ELSE IF c = "f" THEN U(12) ELSE IF c = "n" THEN "\n"
     ELSE IF c = "r" THEN "\r" ELSE IF c = "t" THEN "\t" ELSE c]

\* The pieces lo..hi of a function of sequences, one after the other; by
\* halves.
RECURSIVE ConcatRange(_, _, _)
ConcatRange(pieces, lo, hi) ==
  IF lo > hi THEN <<>>
  ELSE IF lo = hi THEN pieces[lo]
  ELSE ConcatRange(pieces, lo, (lo + hi) \div 2) \o ConcatRange(pieces, ((lo + hi) \div 2) + 1, hi)

\* A string literal starting at the quote at position i.  It ends at the
\* first quote with an even number of backslashes right before it.  Inside,
\* a backslash that is not itself escaped starts an escape sequence: one of
\* the two-character ones, or u and four hexadecimal digits for a code unit.
JsonString(t, i) ==
  LET Slashes(k) == Cardinality({j \in (i + 1)..(k - 1) : \A m \in j..(k - 1) : t[m] = "\\"})
      closes == {k \in (i + 1)..Len(t) : t[k] = "\"" /\ Slashes(k) % 2 = 0}
  IN IF closes = {} THEN JsonFail
     ELSE
       LET j == CHOOSE k \in closes : \A m \in closes : k <= m
           Starts(k) == k > i /\ k < j /\ t[k] = "\\" /\ Slashes(k) % 2 = 0
           Code(k) == 4096 * HexValue(t[k + 2]) + 256 * HexValue(t[k + 3])
                        + 16 * HexValue(t[k + 4]) + HexValue(t[k + 5])
           WellFormed(k) ==
             /\ k + 1 < j
             /\ \/ t[k + 1] \in DOMAIN JsonEscapes
                \/ /\ t[k + 1] = "u"
                   /\ k + 5 < j
                   /\ \A h \in (k + 2)..(k + 5) : HexValue(t[h]) >= 0
           Escaped(k) == \/ Starts(k - 1)
                         \/ \E b \in (k - 5)..(k - 2) : Starts(b) /\ t[b + 1] = "u"
           piece == [k \in (i + 1)..(j - 1) |->
                       IF Starts(k) THEN (IF t[k + 1] = "u" THEN <<U(Code(k))>>
                                          ELSE <<JsonEscapes[t[k + 1]]>>)
                       ELSE IF Escaped(k) THEN <<>>
                       ELSE <<t[k]>>]
       IN IF \A k \in (i + 1)..(j - 1) : t[k] # "\\" /\ t[k] \notin JsonControlChars
            THEN JsonOk(JsonVal("string", SubSeq(t, i + 1, j - 1)), j + 1)
          ELSE IF \E k \in (i + 1)..(j - 1) :
                    \/ Starts(k) /\ ~WellFormed(k)
                    \/ ~Starts(k) /\ ~Escaped(k) /\ t[k] \in JsonControlChars
            THEN JsonFail
          ELSE JsonOk(JsonVal("string", ConcatRange(piece, i + 1, j - 1)), j + 1)

\* The first position from p on that holds no digit.
JsonDigitsEnd(t, p) ==
  LET stops == {k \in p..Len(t) : t[k] \notin Range(Digits)}
  IN IF stops = {} THEN Max(p, Len(t) + 1)
     ELSE CHOOSE k \in stops : \A m \in stops : k <= m

\* The values of the digits at the positions from..(to - 1).
JsonDigitValues(t, from, to) == [k \in 1..(to - from) |-> HexValue(t[from + k - 1])]

\* The number that the digits ds of an exponent write.  More than nine
\* digits after the leading zeros are beyond the range whatever the digits
\* of the number (unless they are all zero): 1000000000 stands for them.
ExponentValue(ds) ==
  LET used == Cardinality({k \in 1..Len(ds) : \E m \in 1..k : ds[m] # 0})
  IN IF used > 9 THEN 1000000000 ELSE IntOfDigits(ds, Len(ds) - used + 1, Len(ds))

\* A number starting at position i: an optional minus; 0 or a digit run that
\* does not start with 0; a point and digits, if both are there; e or E, an
\* optional sign and digits, if the digits are there.  Its value is the
\* nearest double.
JsonNumber(t, i) ==
  LET neg == t[i] = "-"
      d == IF neg THEN i + 1 ELSE i
  IN
  Bind(IF d <= Len(t) /\ t[d] = "0" THEN d + 1 ELSE JsonDigitsEnd(t, d), LAMBDA whole :
  Bind(IF whole < Len(t) /\ t[whole] = "." THEN JsonDigitsEnd(t, whole + 1) ELSE whole + 1,
       LAMBDA point :
    LET hasFrac == point > whole + 1
        frac == IF hasFrac THEN point ELSE whole
        marked == frac < Len(t) /\ t[frac] \in {"e", "E"}
        signed == marked /\ t[frac + 1] \in {"+", "-"}
        expFrom == IF signed THEN frac + 2 ELSE frac + 1
    IN
    Bind(IF marked THEN JsonDigitsEnd(t, expFrom) ELSE expFrom, LAMBDA expEnd :
      LET hasExp == expEnd > expFrom
          end == IF hasExp THEN expEnd ELSE frac
          digits == JsonDigitValues(t, d, whole)
                      \o (IF hasFrac THEN JsonDigitValues(t, whole + 1, frac) ELSE <<>>)
          expValue == IF ~hasExp THEN 0 ELSE ExponentValue(JsonDigitValues(t, expFrom, end))
          e10 == (IF signed /\ t[frac + 1] = "-" THEN -1 ELSE 1) * expValue
                   - (IF hasFrac THEN frac - whole - 1 ELSE 0)
      IN IF whole = d THEN JsonFail
         ELSE JsonOk(JsonVal("number", DoubleOfDecimal(neg, digits, e10)), end))))

\* Whether a key is an array index: the decimal form, without a leading
\* zero, of a number up to 4294967294 (2^32 - 2).
IsArrayIndex(key) ==
  /\ key # <<>>
  /\ \A k \in 1..Len(key) : key[k] \in Range(Digits)
  /\ key[1] # "0" \/ Len(key) = 1
  /\ \/ Len(key) < 10
     \/ /\ Len(key) = 10
        /\ LET top == <<4, 2, 9, 4, 9, 6, 7, 2, 9, 4>>
               differ == {k \in 1..10 : HexValue(key[k]) # top[k]}
           IN differ = {} \/ HexValue(key[SetMin(differ)]) < top[SetMin(differ)]

\* Whether array index a is the smaller number.
IndexLess(a, b) ==
  \/ Len(a) < Len(b)
  \/ /\ Len(a) = Len(b)
     /\ \E k \in 1..Len(a) :
          /\ HexValue(a[k]) < HexValue(b[k])
          /\ \A m \in 1..(k - 1) : a[m] = b[m]

\* members with key set to value.  A repeated key keeps its place and takes
\* the later value.  A new key goes where the enumeration of the object's
\* properties has it: array indices first, in ascending order, then the
\* other keys in the order they were added.
JsonPut(members, key, value) ==
  IF \E k \in 1..Len(members) : members[k].key = key
    THEN [k \in 1..Len(members) |->
            IF members[k].key = key THEN JsonMember(key, value) ELSE members[k]]
  ELSE IF IsArrayIndex(key)
    THEN LET before == Cardinality({k \in 1..Len(members) :
                                      /\ IsArrayIndex(members[k].key)
                                      /\ IndexLess(members[k].key, key)})
         IN SubSeq(members, 1, before) \o <<JsonMember(key, value)>>
              \o SubSeq(members, before + 1, Len(members))
    ELSE Append(members, JsonMember(key, value))

RECURSIVE JsonValue(_, _), JsonElements(_, _, _), JsonMembers(_, _, _)

\* The value starting at position i (not whitespace).
JsonValue(t, i) ==
  IF i > Len(t) THEN JsonFail
  ELSE IF t[i] = "\"" THEN JsonString(t, i)
  ELSE IF t[i] = "-" \/ t[i] \in Range(Digits) THEN JsonNumber(t, i)
  ELSE IF At(t, i, <<"t","r","u","e">>) THEN JsonOk(JsonVal("true", <<>>), i + 4)
  ELSE IF At(t, i, <<"f","a","l","s","e">>) THEN JsonOk(JsonVal("false", <<>>), i + 5)
  ELSE IF At(t, i, <<"n","u","l","l">>) THEN JsonOk(JsonVal("null", <<>>), i + 4)
  ELSE IF t[i] = "[" THEN
    LET j == JsonSkipWs(t, i + 1)
    IN IF j <= Len(t) /\ t[j] = "]" THEN JsonOk(JsonVal("array", <<>>), j + 1)
       ELSE JsonElements(t, j, <<>>)
  ELSE IF t[i] = "{" THEN
    LET j == JsonSkipWs(t, i + 1)
    IN IF j <= Len(t) /\ t[j] = "}" THEN JsonOk(JsonVal("object", <<>>), j + 1)
       ELSE JsonMembers(t, j, <<>>)
  ELSE JsonFail

\* The rest of an array from the element at position i, acc holding the
\* elements before it.
JsonElements(t, i, acc) ==
  Bind(JsonValue(t, i), LAMBDA r :
    IF ~r.ok THEN JsonFail
    ELSE LET j == JsonSkipWs(t, r.next)
         IN IF j > Len(t) THEN JsonFail
            ELSE IF t[j] = "]" THEN JsonOk(JsonVal("array", Append(acc, r.val)), j + 1)
            ELSE IF t[j] = "," THEN JsonElements(t, JsonSkipWs(t, j + 1), Append(acc, r.val))
            ELSE JsonFail)

\* The rest of an object from the key at position i, acc holding the
\* members before it.
JsonMembers(t, i, acc) ==
  IF i > Len(t) \/ t[i] # "\"" THEN JsonFail
  ELSE
    Bind(JsonString(t, i), LAMBDA k :
      IF ~k.ok THEN JsonFail
      ELSE LET c == JsonSkipWs(t, k.next)
           IN IF c > Len(t) \/ t[c] # ":" THEN JsonFail
              ELSE
                Bind(JsonValue(t, JsonSkipWs(t, c + 1)), LAMBDA r :
                  IF ~r.ok THEN JsonFail
                  ELSE
                    Bind(JsonPut(acc, k.val.val, r.val), LAMBDA members :
                      LET j == JsonSkipWs(t, r.next)
                      IN IF j > Len(t) THEN JsonFail
                         ELSE IF t[j] = "}" THEN JsonOk(JsonVal("object", members), j + 1)
                         ELSE IF t[j] = "," THEN JsonMembers(t, JsonSkipWs(t, j + 1), members)
                         ELSE JsonFail)))

\* JSON.parse(t): the value when t is one value between optional whitespace.
JSONParse(t) ==
  Bind(JsonValue(t, JsonSkipWs(t, 1)), LAMBDA r :
    IF r.ok /\ JsonSkipWs(t, r.next) > Len(t) THEN r ELSE JsonFail)

----------------------------------------------------------------------------
(* llm-summarizer.ts: the calls of the summarisation service *)

MSG_API_KEY_NOT_SET ==
  <<"A","N","T","H","R","O","P","I","C","_","A","P","I","_","K","E","Y"," ",
    "i","s"," ","n","o","t"," ","s","e","t","."," ","P","l","e","a","s","e",
    " ","s","e","t"," ","i","t"," ","i","n"," ","t","h","e"," ",".","e","n",
    "v"," ","f","i","l","e"," ","o","r"," ","a","s"," ","a","n"," ","e","n",
    "v","i","r","o","n","m","e","n","t"," ","v","a","r","i","a","b","l","e",
    ".">>
MSG_EMPTY_RESPONSE ==
  <<"R","e","s","p","o","n","s","e"," ","f","r","o","m"," ","L","L","M"," ",
    "i","s"," ","e","m","p","t","y",".">>
MSG_COULD_NOT_PARSE ==
  <<"C","o","u","l","d"," ","n","o","t"," ","p","a","r","s","e"," ","L","L",
    "M"," ","r","e","s","p","o","n","s","e"," ","a","s"," ","J","S","O","N",
    ":"," ">>
MSG_FAILED_TO_SUMMARIZE ==
  <<"F","a","i","l","e","d"," ","t","o"," ","s","u","m","m","a","r","i","z",
    "e"," ","d","o","c","u","m","e","n","t","s",":"," ">>
SYNTAX_ERROR_PREFIX ==
  <<"S","y","n","t","a","x","E","r","r","o","r",":"," ">>

\* The text of the SyntaxError that JSON.parse throws, which depends on the
\* engine: one token stands for it.
SyntaxErrorMessage == <<"<SyntaxError message>">>

\* The fence: three GRAVE ACCENT code units (written "u0060", as a TLA+ string
\* cannot hold the character).
FENCE == <<"u0060","u0060","u0060">>
JSON_TAG == <<"j","s","o","n">>

\* Whether t reads \s* and a fence from position e on.
ClosesAt(t, e) ==
  \E f \in e..Len(t) :
    /\ At(t, f, FENCE)
    /\ \A k \in e..(f - 1) : t[k] \in WhitespaceChars

\* JSON_CODE_BLOCK_PATTERN, /FENCE(?:json)?\s*([\s\S]*?)\s*FENCE/, tried at
\* position i: Some(capture), or None when there is no match there.  The
\* tag is taken when that leads to a match, the first \s* is as long and
\* the capture as short as a match allows.
MatchBlockAt(t, i) ==
  IF ~At(t, i, FENCE) THEN None
  ELSE
    LET tagEnds == IF At(t, i + 3, JSON_TAG) THEN <<i + 7, i + 3>> ELSE <<i + 3>>
        WsEnds(c0) == {c1 \in c0..(Len(t) + 1) :
                         \A k \in c0..(c1 - 1) : t[k] \in WhitespaceChars}
        Ends(c1) == {e \in c1..Len(t) : ClosesAt(t, e)}
        Starts(c0) == {c1 \in WsEnds(c0) : Ends(c1) # {}}
        usable == {n \in 1..Len(tagEnds) : Starts(tagEnds[n]) # {}}
    IN IF usable = {} THEN None
       ELSE LET c1 == SetMax(Starts(tagEnds[SetMin(usable)]))
            IN Some(SubSeq(t, c1, SetMin(Ends(c1)) - 1))

\* The pattern with a greedy capture: from the first fence to the last.
matchJsonCodeBlockGreedy(t) ==
  LET fences == {i \in 1..Len(t) : At(t, i, FENCE)}
  IN IF fences = {} \/ SetMax(fences) < SetMin(fences) + 3 THEN None
     ELSE LET i == SetMin(fences)
              c0 == IF At(t, i + 3, JSON_TAG) THEN i + 7 ELSE i + 3
          IN Some(Trim(SubSeq(t, c0, SetMax(fences) - 1)))

\* resultText.match(JSON_CODE_BLOCK_PATTERN): the capture of the leftmost
\* match, or None.
matchJsonCodeBlock(t) ==
  LET hits == {i \in 1..Len(t) : MatchBlockAt(t, i) # None}
  IN IF hits = {} THEN None ELSE MatchBlockAt(t, SetMin(hits))

\* A content block of a response.
Block(type, text) == [type |-> type, text |-> text]

\* extractTextFromLlmResponse: the texts of the text blocks, concatenated.
RECURSIVE ConcatTextBlocks(_)
ConcatTextBlocks(blocks) ==
  IF blocks = <<>> THEN <<>>
  ELSE (IF Head(blocks).type = "text" THEN Head(blocks).text ELSE <<>>)
         \o ConcatTextBlocks(Tail(blocks))
extractTextFromLlmResponse(response) ==
  IF response.isArray THEN ConcatTextBlocks(response.content) ELSE <<>>

\* parseJsonFromLlmResponse, and the same steps inside the inline
\* summarizeDocuments (which puts the stringified SyntaxError in the message,
\* where the extracted copy puts its message).
parseJsonFromLlmResponse(which, resultText) ==
  IF resultText = <<>> THEN Throw(MSG_EMPTY_RESPONSE)
  ELSE
    LET jsonMatch == matchJsonCodeBlock(resultText)
        parsableResultText == IF jsonMatch # None THEN jsonMatch[1] ELSE resultText
        parsed == JSONParse(parsableResultText)
    IN IF parsed.ok THEN Return(parsed.val)
       ELSE Throw(MSG_COULD_NOT_PARSE
                    \o (IF which = "inline" THEN SYNTAX_ERROR_PREFIX ELSE <<>>)
                    \o SyntaxErrorMessage)

\* summarizeDocuments from the service's reply on: the try block and its
\* catch, which rethrows (inline) or wraps the message (extracted).
summarizeAfterCall(which, r) ==
  LET tried == IF r.failed THEN Throw(r.message)
               ELSE parseJsonFromLlmResponse(which, extractTextFromLlmResponse(r))
  IN IF tried.threw /\ which = "extracted"
       THEN Throw(MSG_FAILED_TO_SUMMARIZE \o tried.message)
       ELSE tried

\* The fallback description of a document.
FallbackDescription(doc) == DEFAULT_DESCRIPTION_PREFIX \o PathBasename(doc.path)

\* describeAfterCall testing the text before trimming it.
describeAfterCallUntrimmedTest(doc, r) ==
  IF r.failed THEN Return(FallbackDescription(doc))
  ELSE LET description == extractTextFromLlmResponse(r)
       IN IF description = <<>> THEN Return(FallbackDescription(doc))
          ELSE Return(Trim(description))

\* generateDocumentDescription from the service's reply on.
describeAfterCall(doc, r) ==
  IF r.failed THEN Return(FallbackDescription(doc))
  ELSE LET description == extractTextFromLlmResponse(r)
       IN IF Trim(description) = <<>> THEN Return(FallbackDescription(doc))
          ELSE Return(Trim(description))

----------------------------------------------------------------------------
(* Inputs of the service calls *)

\* The credential: unset, set to the empty string, or set.
ApiKeys == {None, Some(<<>>), Some(<<"k">>)}
\* !apiKey taken as "the variable is unset".
KeyMissingUnsetOnly(key) == key = None
\* !apiKey: undefined and the empty string are both falsy.
KeyMissing(key) == key = None \/ key[1] = <<>>

\* A result text of the requested shape.
GoodJson ==
  <<"{","\"","p","r","o","j","e","c","t","N","a","m","e","\"",":","\"","M",
    "y"," ","D","o","c","\"",",","\"","s","u","m","m","a","r","y","\"",":",
    "\"","s","\"",",","\"","t","o","p","i","c","s","\"",":","[","\"","t","\"",
    "]","}">>

\* A result whose summary cannot be converted to a primitive: its own
\* toString is not a function.
UnprintableJson ==
  <<"{","\"","p","r","o","j","e","c","t","N","a","m","e","\"",":","\"","p",
    "\"",",","\"","s","u","m","m","a","r","y","\"",":","{","\"","t","o","S",
    "t","r","i","n","g","\"",":","1","}",",","\"","t","o","p","i","c","s",
    "\"",":","[","\"","t","\"","]","}">>

\* A result with an escaped name, a numeric summary and topics that are a
\* number and an array.
PrintedJson ==
  <<"{","\"","p","r","o","j","e","c","t","N","a","m","e","\"",":","\"","p",
    "\\","u","0","0","5","1","\"",",","\"","s","u","m","m","a","r","y","\"",
    ":","-","0",",","\"","t","o","p","i","c","s","\"",":","[","1","e","2","1",
    ",","[","n","u","l","l",",","\"","a","\\","n","\"","]","]","}">>

\* What a reply text is put together from: prose before, an optional fence
\* with or without the json tag, whitespace inside the fence, the body, and
\* prose after (which may hold a second fenced block).
ReplyBodies ==
  { GoodJson, PrintedJson, <<"{","}">>, <<"4","2">>, <<"n","u","l","l">>, <<"[","]">>,
    <<"o","o","p","s">>, <<>>, <<" ","x","\n">>, <<" ","\n">>,
    <<"{","\"","p","r","o","j","e","c","t","N","a","m","e","\"",":","\"","p",
      "\"",",","\"","s","u","m","m","a","r","y","\"",":","\"","s","\"",",",
      "\"","t","o","p","i","c","s","\"",":","\"","t","\"","}">>,
    <<"{","\"","p","r","o","j","e","c","t","N","a","m","e","\"",":","\"","p",
      "\"",",","\"","s","u","m","m","a","r","y","\"",":","\"","s","\"","}">> }
ReplyParts ==
  [ prefix : {<<>>, <<"H","e","r","e",":","\n">>, <<"4","2"," ">>},
    fence : {"none", "plain", "json"},
    pad : {<<>>, <<"\n">>},
    body : ReplyBodies,
    suffix : {<<>>, <<"\n","D","o","n","e">>, <<" ">> \o FENCE \o <<"x">> \o FENCE} ]
ReplyText(c) ==
  IF c.fence = "none" THEN c.prefix \o c.body \o c.suffix
  ELSE c.prefix \o FENCE \o (IF c.fence = "json" THEN JSON_TAG ELSE <<>>) \o c.pad
         \o c.body \o c.pad \o FENCE \o c.suffix
ReplyTextOf == [c \in ReplyParts |-> ReplyText(c)]
ReplyTexts == {ReplyTextOf[c] : c \in ReplyParts}

\* The replies: a response with one text block for every text, responses
\* without text, one whose text is spread over blocks, and a failed call.
ServiceError == <<"<service error>">>
Replies ==
  {Reply(FALSE, <<>>, TRUE, <<Block("text", t)>>) : t \in ReplyTexts}
    \cup { Reply(TRUE, ServiceError, TRUE, <<>>),
           Reply(FALSE, <<>>, TRUE, <<>>),
           Reply(FALSE, <<>>, FALSE, <<>>),
           Reply(FALSE, <<>>, TRUE, <<Block("tool_use", GoodJson)>>),
           Reply(FALSE, <<>>, TRUE,
                 <<Block("text", SubSeq(GoodJson, 1, 10)), Block("tool_use", <<"x">>),
                   Block("text", SubSeq(GoodJson, 11, Len(GoodJson)))>>) }

\* The document lists handed to summarizeDocuments and the documents handed
\* to generateDocumentDescription.
SummarizedLists == { <<>>, <<"WSmall", "JExact">>, <<"JOver", "WSmall">> }
DescribedDocs == {DocA, DocB}

\* A request sent to the service: which prompt, and what it is built from.
Request(kind, payload) == [kind |-> kind, payload |-> payload]

----------------------------------------------------------------------------
(* summarizeDocuments and generateDocumentDescription, each called once *)

InitLlm ==
  /\ apiKey \in ApiKeys
  /\ impl \in {"inline", "extracted"}
  /\ documents \in SummarizedLists
  /\ pcLlm = "idle"
  /\ requests = <<>>
  /\ reply = NoReply
  /\ document = Doc(<<>>, <<>>, None, None)
  /\ pcPack = "off"
  /\ idx = 1
  /\ combinedContent = <<>>
  /\ totalTokens = DoubleOfInt(0)
  /\ usedDocuments = 0
  /\ op = "none"
  /\ projectName = <<>>
  /\ toolNameArg = <<>>
  /\ summarizationResult = [projectName |-> <<>>, summary |-> <<>>, topics |-> <<>>]
  /\ markdownFiles = <<>>
  /\ docsRootDir = <<>>
  /\ outcome = Return(Undefined)
  /\ MainOff

\* summarizeDocuments is entered: without a credential it throws at once,
\* with one the packing loop starts.
SumStart ==
  /\ pcLlm = "idle"
  /\ op' = "summarizeDocuments"
  /\ IF KeyMissing(apiKey)
       THEN /\ outcome' = Throw(MSG_API_KEY_NOT_SET)
            /\ pcLlm' = "done"
            /\ pcPack' = pcPack
       ELSE /\ outcome' = outcome
            /\ pcLlm' = "packing"
            /\ pcPack' = "loop"
  /\ UNCHANGED <<projectName, toolNameArg, summarizationResult, markdownFiles, docsRootDir>>
  /\ UNCHANGED <<impl, documents, idx, combinedContent, totalTokens, usedDocuments>>
  /\ UNCHANGED <<apiKey, requests, reply, document>>
  /\ UNCHANGED mainVars

\* The prompt is built around the payload and sent; the call is awaited.
SumCall ==
  /\ pcLlm = "packing"
  /\ pcPack = "done"
  /\ requests' = Append(requests, Request("summarize", combinedContent))
  /\ reply' \in Replies
  /\ pcLlm' = "awaiting"
  /\ UNCHANGED <<apiKey, document>>
  /\ UNCHANGED <<nameVars, packVars>>
  /\ UNCHANGED mainVars

\* The call settles: the text is extracted and parsed, or the error goes up.
SumFinish ==
  /\ pcLlm = "awaiting"
  /\ op = "summarizeDocuments"
  /\ outcome' = summarizeAfterCall(impl, reply)
  /\ pcLlm' = "done"
  /\ UNCHANGED <<op, projectName, toolNameArg, summarizationResult, markdownFiles, docsRootDir>>
  /\ UNCHANGED <<apiKey, requests, reply, document>>
  /\ UNCHANGED packVars
  /\ UNCHANGED mainVars

\* generateDocumentDescription is entered: without a credential it returns
\* the fallback at once, with one it sends its prompt.
DescribeStart ==
  /\ pcLlm = "idle"
  /\ op' = "generateDocumentDescription"
  /\ \E d \in DescribedDocs :
       /\ document' = d
       /\ IF KeyMissing(apiKey)
            THEN /\ outcome' = Return(FallbackDescription(d))
                 /\ pcLlm' = "done"
                 /\ UNCHANGED <<requests, reply>>
            ELSE /\ outcome' = outcome
                 /\ pcLlm' = "awaiting"
                 /\ requests' = Append(requests, Request("describe", d.path))
                 /\ reply' \in Replies
  /\ UNCHANGED <<projectName, toolNameArg, summarizationResult, markdownFiles, docsRootDir>>
  /\ UNCHANGED apiKey
  /\ UNCHANGED packVars
  /\ UNCHANGED mainVars

\* The description call settles.
DescribeFinish ==
  /\ pcLlm = "awaiting"
  /\ op = "generateDocumentDescription"
  /\ outcome' = describeAfterCall(document, reply)
  /\ pcLlm' = "done"
  /\ UNCHANGED <<op, projectName, toolNameArg, summarizationResult, markdownFiles, docsRootDir>>
  /\ UNCHANGED <<apiKey, requests, reply, document>>
  /\ UNCHANGED packVars
  /\ UNCHANGED mainVars

NextLlm ==
  \/ SumStart
  \/ PackAdd
  \/ PackStop
  \/ PackTruncateFirst
  \/ PackEnd
  \/ SumCall
  \/ SumFinish
  \/ DescribeStart
  \/ DescribeFinish

SpecLlm == InitLlm /\ [][NextLlm]_vars

----------------------------------------------------------------------------
(* index.ts: what main computes between its calls *)

DEFAULT_PROJECT_NAME ==
  <<"m","a","r","k","d","o","w","n","-","d","o","c","s","-","s","e","r","v","e","r">>

\* The chain main applies to the override and to the suggested name:
\* toLowerCase, whitespace runs to "-", everything but a-z, 0-9, "-" removed.
sanitizeInline(name) == stripNonAlnumHyphen(replaceSpaces(toLowerCase(name)))

\* summarizeDocuments and generateDocumentDescription as main sees them: the
\* credential check, then what the service's reply leads to.
summarizeDocumentsOutcome(which, key, r) ==
  IF KeyMissing(key) THEN Throw(MSG_API_KEY_NOT_SET) ELSE summarizeAfterCall(which, r)
generateDocumentDescriptionOutcome(key, doc, r) ==
  IF KeyMissing(key) THEN Return(FallbackDescription(doc)) ELSE describeAfterCall(doc, r)

\* The value of a parsed object's field: Some(value), or None when the value
\* is no object or has no such field.
JsonField(v, key) ==
  IF v.kind # "object" THEN None
  ELSE LET at == {k \in 1..Len(v.val) : v.val[k].key = key}
       IN IF at = {} THEN None ELSE Some(v.val[SetMin(at)].value)

KEY_PROJECT_NAME == <<"p","r","o","j","e","c","t","N","a","m","e">>
KEY_SUMMARY == <<"s","u","m","m","a","r","y">>
KEY_TOPICS == <<"t","o","p","i","c","s">>

KEY_TO_STRING == <<"t","o","S","t","r","i","n","g">>

\* Whether a parsed value can be converted to a string.  An object is
\* converted by the toString it inherits, unless it has a property of that
\* name: that one is found first, is no function, and valueOf gives back
\* the object, so the conversion throws a TypeError.  An array is converted
\* by converting its elements.
RECURSIVE JsonPrintable(_)
JsonPrintable(v) ==
  IF v.kind = "object" THEN \A k \in 1..Len(v.val) : v.val[k].key # KEY_TO_STRING
  ELSE IF v.kind = "array" THEN \A k \in 1..Len(v.val) : JsonPrintable(v.val[k])
  ELSE TRUE

\* A parsed value as a template literal prints it: a number as
\* Number::toString writes it, an array as its elements joined by commas
\* (null as nothing), an object as [object Object].
RECURSIVE JsonToString(_)
JsonToString(v) ==
  IF v.kind = "string" THEN v.val
  ELSE IF v.kind = "number" THEN NumberToString(v.val)
  ELSE IF v.kind = "true" THEN <<"t","r","u","e">>
  ELSE IF v.kind = "false" THEN <<"f","a","l","s","e">>
  ELSE IF v.kind = "array"
    THEN ConcatRange([k \in 1..(2 * Len(v.val) - 1) |->
                        IF k % 2 = 0 THEN <<",">>
                        ELSE IF v.val[(k + 1) \div 2].kind = "null" THEN <<>>
                        ELSE JsonToString(v.val[(k + 1) \div 2])],
                     1, 2 * Len(v.val) - 1)
  ELSE IF v.kind = "object"
    THEN <<"[","o","b","j","e","c","t"," ","O","b","j","e","c","t","]">>
  ELSE <<"n","u","l","l">>

\* Whether main gets through its use of the summarization result without a
\* TypeError: the result is not null, summary and every topic can be printed,
\* topics has forEach (is an array) and projectName has toLowerCase (is a
\* string).
ResultUsable(v) ==
  /\ v.kind # "null"
  /\ JsonField(v, KEY_SUMMARY) = None \/ JsonPrintable(JsonField(v, KEY_SUMMARY)[1])
  /\ JsonField(v, KEY_TOPICS) # None
  /\ JsonField(v, KEY_TOPICS)[1].kind = "array"
  /\ JsonPrintable(JsonField(v, KEY_TOPICS)[1])
  /\ JsonField(v, KEY_PROJECT_NAME) # None
  /\ JsonField(v, KEY_PROJECT_NAME)[1].kind = "string"

\* A field as a template literal prints it.
JsonText(field) ==
  IF field = None THEN <<"u","n","d","e","f","i","n","e","d">>
  ELSE JsonToString(field[1])

\* The usable result as the SummarizationResult handed on.
AsSummarizationResult(v) ==
  [projectName |-> JsonField(v, KEY_PROJECT_NAME)[1].val,
   summary |-> JsonText(JsonField(v, KEY_SUMMARY)),
   topics |-> [k \in 1..Len(JsonField(v, KEY_TOPICS)[1].val) |->
                 JsonText(Some(JsonField(v, KEY_TOPICS)[1].val[k]))]]

SUMMARY_PREFIX ==
  <<"C","o","l","l","e","c","t","i","o","n"," ","o","f"," ","M","a","r","k","d","o","w","n"," ",
    "d","o","c","u","m","e","n","t","s"," ","i","n"," ">>
SUMMARY_SUFFIX == <<" ","d","i","r","e","c","t","o","r","y">>

\* simpleSummarization of the override branch.
SimpleSummarization(custom, docs, docsDir) ==
  [projectName |-> custom,
   summary |-> SUMMARY_PREFIX \o PathBasename(docsDir) \o SUMMARY_SUFFIX,
   topics |-> [k \in 1..(IF Len(docs) < 5 THEN Len(docs) ELSE 5) |->
                 IF docs[k].title # None /\ docs[k].title[1] # <<>>
                   THEN docs[k].title[1] ELSE PathBasename(docs[k].path)]]

\* The document main builds from a file it read.
LoadedDocument(filePath, content) ==
  LET title == extractTitleFromMarkdown(content)
  IN Doc(filePath, content, IF title # <<>> THEN Some(title) ELSE None, None)

\* A call main makes to a collaborator.
Call(name, arg) == [name |-> name, arg |-> arg]

----------------------------------------------------------------------------
(* Inputs of main *)

\* The override: not given, empty, canonicalising to a name, to nothing, and
\* to a name too long for the composite tool name.
CustomProjectNames ==
  { None, Some(<<>>), Some(<<"M","y"," ","P","r","o","j">>), Some(<<"!","!","!">>),
    Some(Rep("a", 23)) }

\* Longest list of files findMarkdownFiles returns.
MaxFiles == 2

\* The files of the document directory, in the order they are found.
FilePathAt(i) == IF i % 2 = 1 THEN DocA.path ELSE DocB.path
FileContentAt(i) == IF i % 2 = 1 THEN DocA.content ELSE DocB.content
DiscoveredLists == {[i \in 1..n |-> i] : n \in 0..MaxFiles}

\* A response text of the requested shape with the given project name.
ResultJson(name) ==
  SubSeq(GoodJson, 1, 16) \o name \o SubSeq(GoodJson, 23, Len(GoodJson))

TextReply(t) == Reply(FALSE, <<>>, TRUE, <<Block("text", t)>>)
FailedReply == Reply(TRUE, ServiceError, TRUE, <<>>)

\* What the service answers to the summarisation request: a result whose
\* name canonicalises to a name, to nothing, or to a name too long; results
\* of another shape, one that cannot be printed and one printed from numbers
\* and arrays; text that is no JSON; a failed call.
MainSummaryReplies ==
  { TextReply(GoodJson), TextReply(ResultJson(<<"?","!">>)),
    TextReply(ResultJson(Rep("a", 23))), TextReply(<<"[","]">>),
    TextReply(UnprintableJson), TextReply(PrintedJson),
    TextReply(<<"o","o","p","s">>), FailedReply }

\* What it answers to a description request.
MainDescriptionReplies == { TextReply(<<" ","d"," ","\n">>), TextReply(<<>>), FailedReply }

----------------------------------------------------------------------------
(* index.ts, main: one run of the generator *)

\* A run ends with process.exit(code) or by returning from main.
MainExit(status) ==
  /\ exitStatus' = status
  /\ pcMain' = "end"

InitMain ==
  /\ customProjectName \in CustomProjectNames
  /\ apiKey \in {None, Some(<<"k">>)}
  /\ impl \in {"inline", "extracted"}
  /\ docsRootDir \in RootDirs
  /\ pcMain = "stat"
  /\ discovered = <<>>
  /\ mainIdx = 1
  /\ calls = <<>>
  /\ exitStatus = "running"
  /\ op = "main"
  /\ projectName = <<>>
  /\ toolNameArg = <<>>
  /\ summarizationResult = [projectName |-> <<>>, summary |-> <<>>, topics |-> <<>>]
  /\ markdownFiles = <<>>
  /\ outcome = Return(<<>>)
  /\ documents = <<>>
  /\ pcPack = "off"
  /\ idx = 1
  /\ combinedContent = <<>>
  /\ totalTokens = DoubleOfInt(0)
  /\ usedDocuments = 0
  /\ pcLlm = "off"
  /\ requests = <<>>
  /\ reply = NoReply
  /\ document = Doc(<<>>, <<>>, None, None)

\* await fs.stat(docsDir): the call is made and main waits for it.
MainStatCall ==
  /\ pcMain = "stat"
  /\ calls' = Append(calls, Call("stat", docsRootDir))
  /\ pcMain' = "statting"
  /\ UNCHANGED <<nameVars, packVars, llmVars>>
  /\ UNCHANGED <<customProjectName, discovered, mainIdx, exitStatus>>

\* fs.stat settles: a directory, something else, or nothing there.
MainStatSettle ==
  /\ pcMain = "statting"
  /\ \E found \in {"directory", "file", "ENOENT"} :
       IF found = "directory"
         THEN pcMain' = "find" /\ exitStatus' = exitStatus
         ELSE MainExit("exit1")
  /\ UNCHANGED <<nameVars, packVars, llmVars, customProjectName, discovered, mainIdx, calls>>

\* await findMarkdownFiles(docsDir): the call is made and main waits for it.
MainFindCall ==
  /\ pcMain = "find"
  /\ calls' = Append(calls, Call("findMarkdownFiles", docsRootDir))
  /\ pcMain' = "finding"
  /\ UNCHANGED <<nameVars, packVars, llmVars>>
  /\ UNCHANGED <<customProjectName, discovered, mainIdx, exitStatus>>

\* findMarkdownFiles settles: it fails, or returns the files it found.
MainFindSettle ==
  /\ pcMain = "finding"
  /\ \/ /\ MainExit("exit1")
        /\ discovered' = discovered
     \/ \E found \in DiscoveredLists :
          /\ discovered' = found
          /\ IF found = <<>>
               THEN MainExit("exit0")
               ELSE pcMain' = "read" /\ exitStatus' = exitStatus
  /\ mainIdx' = 1
  /\ UNCHANGED <<nameVars, packVars, llmVars, customProjectName, calls>>

\* One round of the read loop, await readMarkdownFile(filePath): the call is
\* made and main waits for it.
MainReadCall ==
  /\ pcMain = "read"
  /\ mainIdx <= Len(discovered)
  /\ calls' = Append(calls, Call("readMarkdownFile", [file |-> discovered[mainIdx]]))
  /\ pcMain' = "reading"
  /\ UNCHANGED <<nameVars, packVars, llmVars>>
  /\ UNCHANGED <<customProjectName, discovered, mainIdx, exitStatus>>

\* MainReadSettle keeping a document, without content, for a file it could
\* not read.
MainReadSettleKeepsUnreadable ==
  /\ pcMain = "reading"
  /\ \E readable \in BOOLEAN :
       /\ calls' = [calls EXCEPT ![Len(calls)] =
                      Call("readMarkdownFile",
                           [file |-> discovered[mainIdx], read |-> readable])]
       /\ markdownFiles' =
            Append(markdownFiles,
                   LoadedDocument(FilePathAt(discovered[mainIdx]),
                                  IF readable THEN FileContentAt(discovered[mainIdx]) ELSE <<>>))
  /\ mainIdx' = mainIdx + 1
  /\ pcMain' = "read"
  /\ UNCHANGED <<op, projectName, toolNameArg, summarizationResult, docsRootDir, outcome>>
  /\ UNCHANGED <<packVars, llmVars, customProjectName, discovered, exitStatus>>

\* readMarkdownFile settles: the file is loaded, or skipped with a warning.
\* The log entry of the call gets whether the read succeeded.
MainReadSettle ==
  /\ pcMain = "reading"
  /\ \E readable \in BOOLEAN :
       /\ calls' = [calls EXCEPT ![Len(calls)] =
                      Call("readMarkdownFile",
                           [file |-> discovered[mainIdx], read |-> readable])]
       /\ markdownFiles' =
            IF readable
              THEN Append(markdownFiles, LoadedDocument(FilePathAt(discovered[mainIdx]),
                                                        FileContentAt(discovered[mainIdx])))
              ELSE markdownFiles
  /\ mainIdx' = mainIdx + 1
  /\ pcMain' = "read"
  /\ UNCHANGED <<op, projectName, toolNameArg, summarizationResult, docsRootDir, outcome>>
  /\ UNCHANGED <<packVars, llmVars, customProjectName, discovered, exitStatus>>

\* MainLoaded taking the override branch whenever an override is given.
MainLoadedKeepsEmptyOverride ==
  /\ pcMain = "read"
  /\ mainIdx > Len(discovered)
  /\ IF markdownFiles = <<>>
       THEN /\ MainExit("exit1")
            /\ projectName' = projectName
       ELSE LET given == customProjectName # None /\ customProjectName[1] # <<>>
                name == IF given THEN sanitizeInline(customProjectName[1]) ELSE <<>>
            IN /\ projectName' = name
               /\ pcMain' = IF ~given THEN "summarize" ELSE "describe"
               /\ exitStatus' = exitStatus
  /\ mainIdx' = 1
  /\ UNCHANGED <<op, toolNameArg, summarizationResult, markdownFiles, docsRootDir, outcome>>
  /\ UNCHANGED <<packVars, llmVars, customProjectName, discovered, calls>>

\* After the read loop: nothing loaded ends the run; otherwise the override,
\* when given, is canonicalised, and the run takes the summarisation branch
\* or the override branch.
MainLoaded ==
  /\ pcMain = "read"
  /\ mainIdx > Len(discovered)
  /\ IF markdownFiles = <<>>
       THEN /\ MainExit("exit1")
            /\ projectName' = projectName
       ELSE LET given == customProjectName # None /\ customProjectName[1] # <<>>
                name == IF given THEN sanitizeInline(customProjectName[1]) ELSE <<>>
            IN /\ projectName' = name
               /\ pcMain' = IF ~given \/ name = <<>> THEN "summarize" ELSE "describe"
               /\ exitStatus' = exitStatus
  /\ mainIdx' = 1
  /\ UNCHANGED <<op, toolNameArg, summarizationResult, markdownFiles, docsRootDir, outcome>>
  /\ UNCHANGED <<packVars, llmVars, customProjectName, discovered, calls>>

\* summarizeDocuments(markdownDocuments) is called; without a credential it
\* sends nothing, otherwise the service answers the request.
MainSummarizeCall ==
  /\ pcMain = "summarize"
  /\ calls' = Append(calls, Call("summarizeDocuments", [k \in 1..Len(markdownFiles) |->
                                                          markdownFiles[k].path]))
  /\ IF KeyMissing(apiKey)
       THEN reply' = NoReply /\ requests' = requests
       ELSE /\ reply' \in MainSummaryReplies
            /\ requests' = Append(requests, Request("summarize", Len(markdownFiles)))
  /\ pcMain' = "summarizing"
  /\ UNCHANGED <<nameVars, packVars, apiKey, pcLlm, document>>
  /\ UNCHANGED <<customProjectName, discovered, mainIdx, exitStatus>>

\* MainSummarizeSettle going on with the default name after a rejection.
MainSummarizeSettleAbsorbs ==
  /\ pcMain = "summarizing"
  /\ \E o \in {summarizeDocumentsOutcome(impl, apiKey, reply)} :
        IF o.threw
          THEN /\ projectName' = DEFAULT_PROJECT_NAME
               /\ pcMain' = "describe"
               /\ UNCHANGED <<summarizationResult, exitStatus>>
          ELSE IF ~ResultUsable(o.value)
          THEN /\ MainExit("exit1")
               /\ UNCHANGED <<projectName, summarizationResult>>
          ELSE \E result \in {AsSummarizationResult(o.value)} :
               LET name == sanitizeInline(result.projectName)
               IN /\ summarizationResult' = result
                  /\ projectName' = IF name = <<>> THEN DEFAULT_PROJECT_NAME ELSE name
                  /\ pcMain' = "describe"
                  /\ exitStatus' = exitStatus
  /\ mainIdx' = 1
  /\ UNCHANGED <<op, toolNameArg, markdownFiles, docsRootDir, outcome>>
  /\ UNCHANGED <<packVars, llmVars, customProjectName, discovered, calls>>

\* MainSummarizeSettle taking the suggested name as it is.
MainSummarizeSettleRawName ==
  /\ pcMain = "summarizing"
  /\ \E o \in {summarizeDocumentsOutcome(impl, apiKey, reply)} :
        IF o.threw \/ ~ResultUsable(o.value)
          THEN /\ MainExit("exit1")
               /\ UNCHANGED <<projectName, summarizationResult>>
          ELSE \E result \in {AsSummarizationResult(o.value)} :
                  /\ summarizationResult' = result
                  /\ projectName' = IF result.projectName = <<>> THEN DEFAULT_PROJECT_NAME
                                    ELSE result.projectName
                  /\ pcMain' = "describe"
                  /\ exitStatus' = exitStatus
  /\ mainIdx' = 1
  /\ UNCHANGED <<op, toolNameArg, markdownFiles, docsRootDir, outcome>>
  /\ UNCHANGED <<packVars, llmVars, customProjectName, discovered, calls>>

\* The summarisation settles: a rejection, or a result main cannot use,
\* ends the run; otherwise the project name is taken from the result.
MainSummarizeSettle ==
  /\ pcMain = "summarizing"
  /\ \E o \in {summarizeDocumentsOutcome(impl, apiKey, reply)} :
        IF o.threw \/ ~ResultUsable(o.value)
          THEN /\ MainExit("exit1")
               /\ UNCHANGED <<projectName, summarizationResult>>
          ELSE \E result \in {AsSummarizationResult(o.value)} :
               LET name == sanitizeInline(result.projectName)
               IN /\ summarizationResult' = result
                  /\ projectName' = IF name = <<>> THEN DEFAULT_PROJECT_NAME ELSE name
                  /\ pcMain' = "describe"
                  /\ exitStatus' = exitStatus
  /\ mainIdx' = 1
  /\ UNCHANGED <<op, toolNameArg, markdownFiles, docsRootDir, outcome>>
  /\ UNCHANGED <<packVars, llmVars, customProjectName, discovered, calls>>

\* One round of a description loop starts: generateDocumentDescription(doc).
MainDescribeCall ==
  /\ pcMain = "describe"
  /\ mainIdx <= Len(markdownFiles)
  /\ calls' = Append(calls, Call("generateDocumentDescription", markdownFiles[mainIdx].path))
  /\ IF KeyMissing(apiKey)
       THEN reply' = NoReply /\ requests' = requests
       ELSE /\ reply' \in MainDescriptionReplies
            /\ requests' = Append(requests, Request("describe", mainIdx))
  /\ pcMain' = "describing"
  /\ UNCHANGED <<nameVars, packVars, apiKey, pcLlm, document>>
  /\ UNCHANGED <<customProjectName, discovered, mainIdx, exitStatus>>

\* MainDescribeSettle ending the run when the description request failed.
MainDescribeSettleAborts ==
  /\ pcMain = "describing"
  /\ IF reply.failed
       THEN /\ MainExit("exit1")
            /\ UNCHANGED <<markdownFiles, mainIdx>>
       ELSE /\ \E o \in {generateDocumentDescriptionOutcome(apiKey, markdownFiles[mainIdx],
                                                            reply)} :
                 markdownFiles' = [markdownFiles EXCEPT ![mainIdx].description = Some(o.value)]
            /\ mainIdx' = mainIdx + 1
            /\ pcMain' = "describe"
            /\ exitStatus' = exitStatus
  /\ UNCHANGED <<op, projectName, toolNameArg, summarizationResult, docsRootDir, outcome>>
  /\ UNCHANGED <<packVars, llmVars, customProjectName, discovered, calls>>

\* The description settles and is stored on the document; a rejection would
\* store the label of the file name.
MainDescribeSettle ==
  /\ pcMain = "describing"
  /\ \E o \in {generateDocumentDescriptionOutcome(apiKey, markdownFiles[mainIdx], reply)} :
       LET text == IF o.threw THEN FallbackDescription(markdownFiles[mainIdx]) ELSE o.value
       IN markdownFiles' = [markdownFiles EXCEPT ![mainIdx].description = Some(text)]
  /\ mainIdx' = mainIdx + 1
  /\ pcMain' = "describe"
  /\ UNCHANGED <<op, projectName, toolNameArg, summarizationResult, docsRootDir, outcome>>
  /\ UNCHANGED <<packVars, llmVars, customProjectName, discovered, calls, exitStatus>>

\* MainMetadata going on to generateMcpServer whatever the validation said.
MainMetadataIgnoresFailure ==
  /\ pcMain = "describe"
  /\ mainIdx > Len(markdownFiles)
  /\ LET summarized == Len(calls) > 0 /\ \E k \in 1..Len(calls) :
                                           calls[k].name = "summarizeDocuments"
         result == IF summarized THEN summarizationResult
                   ELSE SimpleSummarization(customProjectName[1], markdownFiles, docsRootDir)
     IN /\ summarizationResult' = result
        /\ outcome' = generateMcpToolMetadata(projectName, summarizationResult',
                                               markdownFiles, docsRootDir)
        /\ pcMain' = "server"
        /\ exitStatus' = exitStatus
        /\ calls' = calls \o << Call("generateMcpToolMetadata", projectName),
                                Call("generateMcpServer", projectName) >>
  /\ UNCHANGED <<op, projectName, toolNameArg, markdownFiles, docsRootDir>>
  /\ UNCHANGED <<packVars, llmVars, customProjectName, discovered, mainIdx>>

\* After the description loop: the override branch builds its own
\* summarization; generateMcpToolMetadata runs, and unless it throws
\* generateMcpServer is called.
MainMetadata ==
  /\ pcMain = "describe"
  /\ mainIdx > Len(markdownFiles)
  /\ LET summarized == Len(calls) > 0 /\ \E k \in 1..Len(calls) :
                                           calls[k].name = "summarizeDocuments"
         result == IF summarized THEN summarizationResult
                   ELSE SimpleSummarization(customProjectName[1], markdownFiles, docsRootDir)
     IN /\ summarizationResult' = result
        /\ outcome' = generateMcpToolMetadata(projectName, summarizationResult',
                                               markdownFiles, docsRootDir)
        /\ IF outcome'.threw
             THEN /\ MainExit("exit1")
                  /\ calls' = Append(calls, Call("generateMcpToolMetadata", projectName))
             ELSE /\ pcMain' = "server"
                  /\ exitStatus' = exitStatus
                  /\ calls' = calls \o << Call("generateMcpToolMetadata", projectName),
                                          Call("generateMcpServer", projectName) >>
  /\ UNCHANGED <<op, projectName, toolNameArg, markdownFiles, docsRootDir>>
  /\ UNCHANGED <<packVars, llmVars, customProjectName, discovered, mainIdx>>

\* generateMcpServer settles: written, and generateMcpServerConfig is called,
\* or failed.
MainServer ==
  /\ pcMain = "server"
  /\ \E written \in BOOLEAN :
       IF written
         THEN /\ calls' = Append(calls, Call("generateMcpServerConfig", projectName))
              /\ pcMain' = "config"
              /\ exitStatus' = exitStatus
         ELSE /\ MainExit("exit1")
              /\ calls' = calls
  /\ UNCHANGED <<nameVars, packVars, llmVars, customProjectName, discovered, mainIdx>>

\* generateMcpServerConfig settles: written, and main returns, or failed.
MainConfig ==
  /\ pcMain = "config"
  /\ \E written \in BOOLEAN : MainExit(IF written THEN "completed" ELSE "exit1")
  /\ UNCHANGED <<nameVars, packVars, llmVars, customProjectName, discovered, mainIdx, calls>>

NextMain ==
  \/ MainStatCall
  \/ MainStatSettle
  \/ MainFindCall
  \/ MainFindSettle
  \/ MainReadCall
  \/ MainReadSettle
  \/ MainLoaded
  \/ MainSummarizeCall
  \/ MainSummarizeSettle
  \/ MainDescribeCall
  \/ MainDescribeSettle
  \/ MainMetadata
  \/ MainServer
  \/ MainConfig

SpecMain == InitMain /\ [][NextMain]_vars

----------------------------------------------------------------------------
(* generateMcpToolMetadata over tables of documents: paths that differ in
   spelling and in directory, contents with and without a heading, supplied
   titles and descriptions that are present, empty or absent, topics in
   several orders *)

\* Longest document list of a table.
MaxTableDocs == 3

TableRoot == <<"/","d">>

\* Paths under the root: a file, a file of the same name one directory down,
\* a second spelling of the first, and another file.
TablePaths ==
  { <<"/","d","/","a",".","m","d">>,
    <<"/","d","/","s","/","a",".","m","d">>,
    <<"/","d","/",".","/","a",".","m","d">>,
    <<"/","d","/","s","/","b",".","m","d">> }

\* What a document carries besides its path: content, supplied title,
\* supplied description.
Decoration(content, title, description) ==
  [content |-> content, title |-> title, description |-> description]

Decorations ==
  << Decoration(<<"#"," ","A","\n","x">>, Some(<<"A">>), Some(<<"d","a">>)),
     Decoration(<<"#"," ","A","\n","x">>, None, None),
     Decoration(<<"#"," ","A","\n","x">>, Some(<<"Z">>), Some(<<>>)),
     Decoration(<<"x">>, Some(<<"T">>), None),
     Decoration(<<"\n"," "," ","#"," ","T"," ","\n","#"," ","U">>, None, Some(<<"d","b">>)),
     Decoration(<<"#","A","\n","#","#"," ","B">>, Some(<<"B">>), None) >>

\* The k-th way of decorating a list of paths: the decorations in turn,
\* starting after the k-th.
TableDocument(filePath, i, k) ==
  LET dec == Decorations[((i + k) % Len(Decorations)) + 1]
  IN Doc(filePath, dec.content, dec.title, dec.description)

TableFiles(paths, k) == [i \in 1..Len(paths) |-> TableDocument(paths[i], i, k)]

\* Summarization results with no topic, two topics, and a repeated topic.
TableSummaries ==
  << [projectName |-> <<"p">>, summary |-> <<"S">>, topics |-> <<>>],
     [projectName |-> <<"p">>, summary |-> <<"S","\n","s">>,
      topics |-> << <<"t","2">>, <<"t","1">> >>],
     [projectName |-> <<"p">>, summary |-> <<>>,
      topics |-> << <<"b">>, <<"a">>, <<"b">> >>] >>

InitTable ==
  /\ op = "table"
  /\ projectName \in {<<"p">>, <<"M","y"," ","D","o","c">>}
  /\ \E paths \in SeqsUpTo(TablePaths, MaxTableDocs), k \in 0..(Len(Decorations) - 1) :
       /\ markdownFiles = TableFiles(paths, k)
       /\ summarizationResult = TableSummaries[(k % Len(TableSummaries)) + 1]
  /\ docsRootDir = TableRoot
  /\ toolNameArg = <<>>
  /\ outcome = Return(Undefined)
  /\ impl = "inline"
  /\ documents = <<>>
  /\ pcPack = "off"
  /\ idx = 1
  /\ combinedContent = <<>>
  /\ totalTokens = DoubleOfInt(0)
  /\ usedDocuments = 0
  /\ LlmOff
  /\ MainOff

\* generateMcpToolMetadata(projectName, summarizationResult, markdownFiles,
\* docsRootDir) on the table.
CallGenerateTable ==
  /\ op = "table"
  /\ outcome' = generateMcpToolMetadata(projectName, summarizationResult, markdownFiles,
                                        docsRootDir)
  /\ op' = "generateMcpToolMetadata"
  /\ UNCHANGED <<projectName, toolNameArg, summarizationResult, markdownFiles, docsRootDir>>
  /\ UNCHANGED <<packVars, llmVars, mainVars>>

NextTable ==
  \/ CallGenerateTable

SpecTable == InitTable /\ [][NextTable]_vars

----------------------------------------------------------------------------
(* Properties of the name functions (checked under SpecNames) *)

Contains(s, sub) ==
  \E i \in 0..(Len(s) - Len(sub)) : SubSeq(s, i + 1, i + Len(sub)) = sub

StartsWith(s, pre) == Len(s) >= Len(pre) /\ SubSeq(s, 1, Len(pre)) = pre
EndsWith(s, suf) == Len(s) >= Len(suf) /\ SubSeq(s, Len(s) - Len(suf) + 1, Len(s)) = suf

\* The call failed with the name-too-long Error.
NameTooLong == outcome.threw /\ StartsWith(outcome.message, MSG_EXCEEDS)

Composite(serverName, toolName) ==
  MCP_TOOL_NAME_PREFIX \o serverName \o MCP_TOOL_NAME_SEPARATOR \o toolName

AsciiAlnum == Range(LowerLetters) \cup Range(UpperLetters) \cup Range(Digits)

\* C1: validateMcpToolName(projectName, toolName) fails with the name-too-long
\* error if and only if "mcp__" + s + "__" + toolName is longer than 64, s being
\* the canonical project name or 'default-server' when that is empty; a
\* composite of exactly 64 passes and one of 65 fails.
C1_ValidateFailsIffOver64 ==
  op = "validateMcpToolName" =>
    LET n == Len(Composite(ServerNameOf(projectName), toolNameArg))
    IN /\ NameTooLong <=> n > 64
       /\ outcome.threw <=> n > 64
       /\ n = 64 => ~outcome.threw
       /\ n = 65 => NameTooLong

C1_Witness ==
  /\ op = "validateMcpToolName"
  /\ Len(Composite(ServerNameOf(projectName), toolNameArg)) = 65
  /\ toolNameArg # generateToolName(projectName)
  /\ convertToKebabCase(projectName) # projectName
  /\ NameTooLong

\* C2: the tool name returned by generateToolName, and the toolName of any
\* metadata generateMcpToolMetadata returns, is non-empty, consists of
\* a-z, 0-9 and '-' only, starts with 'search-' and ends with '-docs'.
C2_ToolNameShape ==
  (op \in {"generateToolName", "generateMcpToolMetadata"} /\ ~outcome.threw) =>
    LET t == IF op = "generateToolName" THEN outcome.value ELSE outcome.value.toolName
    IN /\ t # <<>>
       /\ \A i \in 1..Len(t) : t[i] \in AlnumHyphenChars
       /\ StartsWith(t, TOOL_PREFIX)
       /\ EndsWith(t, TOOL_SUFFIX)

C2_Witness ==
  /\ op = "generateMcpToolMetadata"
  /\ ~outcome.threw
  /\ "Z" \in Range(projectName)
  /\ " " \in Range(projectName)
  /\ "!" \in Range(projectName)

\* C3: generateMcpToolMetadata either fails with the name-too-long error or
\* returns metadata whose toolName is exactly generateToolName(projectName)
\* and whose composite identifier is at most 64 long.
C3_MetadataTwoOutcomes ==
  op = "generateMcpToolMetadata" =>
    \/ NameTooLong
    \/ /\ ~outcome.threw
       /\ outcome.value.toolName = generateToolName(projectName)
       /\ Len(Composite(ServerNameOf(projectName), outcome.value.toolName)) <= 64

C3_Witness ==
  /\ op = "generateMcpToolMetadata"
  /\ ~outcome.threw
  /\ Len(Composite(ServerNameOf(projectName), outcome.value.toolName)) = 63

\* C4: the error of a failed name validation carries the composite string and
\* its length, the ceiling 64, the server name and its length, the tool name
\* and its length, and the instruction to shorten the name; each reported
\* length is the length of the reported string.
C4_ErrorCarriesDiagnostics ==
  (op \in {"validateMcpToolName", "generateMcpToolMetadata"} /\ outcome.threw) =>
    LET server == ServerNameOf(projectName)
        tool == IF op = "validateMcpToolName" THEN toolNameArg
                ELSE generateToolName(projectName)
        full == Composite(server, tool)
        m == outcome.message
    IN /\ Contains(m, <<"\"">> \o full \o <<"\"", " ", "(">> \o ToDecimal(Len(full))
                        \o MSG_CHARS_PAREN_NL)
       /\ Contains(m, MSG_LIMIT \o <<"6", "4">> \o MSG_CHARS_NL)
       /\ Contains(m, MSG_SERVER \o server \o <<"\"", " ", "(">> \o ToDecimal(Len(server))
                        \o MSG_CHARS_PAREN_NL)
       /\ Contains(m, <<"\n">> \o MSG_TOOL \o tool \o <<"\"", " ", "(">>
                        \o ToDecimal(Len(tool)) \o MSG_CHARS_PAREN_NL)
       /\ EndsWith(m, MSG_SHORTEN)

C4_Witness ==
  /\ op = "validateMcpToolName"
  /\ outcome.threw
  /\ Len(ServerNameOf(projectName)) # Len(toolNameArg)
  /\ ServerNameOf(projectName) # DEFAULT_SERVER_NAME

\* C5: the canonical form of any string contains only a-z, 0-9 and '-'.
C5_KebabAlphabet ==
  op = "convertToKebabCase" =>
    \A i \in 1..Len(outcome.value) : outcome.value[i] \in AlnumHyphenChars

C5_Witness ==
  /\ op = "convertToKebabCase"
  /\ outcome.value # <<>>
  /\ \E i \in 1..Len(projectName) : projectName[i] \notin AlnumHyphenChars
  /\ "Z" \in Range(projectName)

\* C6: canonicalisation is idempotent: canonicalising a canonical form gives
\* it back.
C6_KebabIdempotent ==
  op = "convertToKebabCase" => convertToKebabCase(outcome.value) = outcome.value

C6_Witness ==
  /\ op = "convertToKebabCase"
  /\ outcome.value # <<>>
  /\ outcome.value # projectName
  /\ "-" \in Range(outcome.value)

\* C7 as stated: an input without any ASCII alphanumeric character has the
\* empty canonical form.
C7_NoAlnumGivesEmpty ==
  (op = "convertToKebabCase" /\ Range(projectName) \cap AsciiAlnum = {}) =>
    outcome.value = <<>>

\* C7 amended: the canonical form is empty exactly when the lower-cased input
\* contains no character of a-z, 0-9, '-' and no whitespace; an input made of
\* whitespace and hyphens only has a non-empty canonical form of hyphens.
C7_EmptyIffNothingKept ==
  op = "convertToKebabCase" =>
    /\ outcome.value = <<>>
         <=> Range(toLowerCase(projectName)) \cap (AlnumHyphenChars \cup WhitespaceChars) = {}
    /\ (projectName # <<>> /\ Range(projectName) \subseteq WhitespaceChars \cup {"-"})
         => (outcome.value # <<>> /\ Range(outcome.value) = {"-"})

C7_Witness ==
  /\ op = "convertToKebabCase"
  /\ outcome.value = <<>>
  /\ "!" \in Range(projectName)
  /\ "u3042" \in Range(projectName)

\* The canonical form stated directly on the lower-cased input, left to right:
\* a whitespace character that starts a run gives one hyphen, the rest of the
\* run nothing, a character of a-z, 0-9, '-' is kept, any other is removed.
RECURSIVE KebabOfLowered(_, _)
KebabOfLowered(s, inRun) ==
  IF s = <<>> THEN <<>>
  ELSE IF Head(s) \in WhitespaceChars
    THEN (IF inRun THEN <<>> ELSE <<"-">>) \o KebabOfLowered(Tail(s), TRUE)
  ELSE (IF Head(s) \in AlnumHyphenChars THEN <<Head(s)>> ELSE <<>>)
         \o KebabOfLowered(Tail(s), FALSE)

\* C8: generateToolName never fails; it returns 'search-docs' exactly when the
\* canonical project name is empty and 'search-' + canonical + '-docs'
\* otherwise, the canonical name being the lower-cased input with each maximal
\* whitespace run turned into one hyphen and every other character outside
\* a-z, 0-9, '-' removed.
C8_GenerateToolName ==
  op = "generateToolName" =>
    LET c == KebabOfLowered(toLowerCase(projectName), FALSE)
    IN /\ ~outcome.threw
       /\ c = convertToKebabCase(projectName)
       /\ outcome.value = DEFAULT_TOOL_NAME <=> c = <<>>
       /\ c # <<>> => outcome.value = TOOL_PREFIX \o c \o TOOL_SUFFIX

C8_Witness ==
  /\ op = "generateToolName"
  /\ outcome.value # DEFAULT_TOOL_NAME
  /\ \E i \in 1..(Len(projectName) - 1) :
       projectName[i] \in WhitespaceChars /\ projectName[i+1] \in WhitespaceChars
  /\ "Z" \in Range(projectName)

\* The path of each document file relative to the root /d, written out.
RelativeToRoot(filePath) ==
  IF filePath = <<"/","d","/","s","/","b",".","m","d">>
    THEN <<"s","/","b",".","m","d">>
    ELSE <<"a",".","m","d">>

\* C20: for a project name within the budget, generateMcpToolMetadata over
\* N documents (N = 0 too) returns availablePaths of length N whose i-th
\* entry has the i-th document's path as originalPath and that path relative
\* to the root as path: nothing is dropped, merged or reordered, also when
\* two documents have the same relative path, and N = 0 gives the empty
\* sequence and no error.
C20_OnePathPerDocumentInOrder ==
  ( /\ op = "generateMcpToolMetadata"
    /\ Len(Composite(ServerNameOf(projectName), generateToolName(projectName))) <= 64 ) =>
    /\ ~outcome.threw
    /\ Len(outcome.value.availablePaths) = Len(markdownFiles)
    /\ \A i \in 1..Len(markdownFiles) :
         /\ outcome.value.availablePaths[i].originalPath = markdownFiles[i].path
         /\ outcome.value.availablePaths[i].path = RelativeToRoot(markdownFiles[i].path)

\* Metadata of three documents of which two have the relative path a.md.
C20_Witness ==
  /\ op = "generateMcpToolMetadata"
  /\ ~outcome.threw
  /\ Len(outcome.value.availablePaths) = 3
  /\ outcome.value.availablePaths[2].path = outcome.value.availablePaths[3].path
  /\ outcome.value.availablePaths[2].originalPath # outcome.value.availablePaths[3].originalPath

\* The composite identifier of a non-empty canonical name c, written out.
CompositeOfCanonical(c) ==
  <<"m","c","p","_","_">> \o c \o <<"_","_","s","e","a","r","c","h","-">> \o c
    \o <<"-","d","o","c","s">>

\* C28: server name and tool name come from the same project name, so for
\* a non-empty canonical form c the composite is "mcp__" c "__search-" c
\* "-docs", of length 19 + 2*|c|: generateMcpToolMetadata succeeds if and
\* only if c has at most 22 characters. A project name with an empty
\* canonical form always passes, with tool name 'search-docs' (composite
\* 'mcp__default-server__search-docs', 32 characters).
C28_SucceedsIffCanonicalAtMost22 ==
  op = "generateMcpToolMetadata" =>
    LET c == KebabOfLowered(toLowerCase(projectName), FALSE)
    IN /\ ~outcome.threw <=> Len(c) <= 22
       /\ Len(CompositeOfCanonical(c)) = 19 + 2 * Len(c)
       /\ (~outcome.threw /\ c # <<>>) =>
            <<"m","c","p","_","_">> \o c \o <<"_","_">> \o outcome.value.toolName
              = CompositeOfCanonical(c)
       /\ outcome.threw =>
            Contains(outcome.message,
                     <<"\"">> \o CompositeOfCanonical(c) \o <<"\""," ","(">>
                       \o ToDecimal(19 + 2 * Len(c)) \o <<"u6587","u5b57",")">>)
       /\ c = <<>> =>
            /\ ~outcome.threw
            /\ outcome.value.toolName = <<"s","e","a","r","c","h","-","d","o","c","s">>
            /\ Len(<<"m","c","p","_","_">> \o DEFAULT_SERVER_NAME \o <<"_","_">>
                     \o outcome.value.toolName) = 32

\* Metadata for a project name longer than its canonical form of exactly 22.
C28_Witness ==
  /\ op = "generateMcpToolMetadata"
  /\ ~outcome.threw
  /\ Len(projectName) > 22
  /\ Len(outcome.value.toolName) = 34

----------------------------------------------------------------------------
(* Properties of the packer (checked under SpecPack) *)

NumDocs == Len(documents)
Serialized(k) == DocContentOf[documents[k]]
Cost(k) == DocTokensOf[documents[k]]

\* The estimated cost of the first k documents together: the running total
\* after k additions, a sum of doubles taken in input order.
RECURSIVE PrefixCost(_)
PrefixCost(k) == IF k = 0 THEN DoubleOfInt(0) ELSE DoubleAdd(PrefixCost(k - 1), Cost(k))

Ceiling == DoubleOfInt(150000)
Over(x) == DoubleGreater(x, Ceiling)

\* The length of the longest prefix whose cumulative cost is within the ceiling.
FitCount ==
  CHOOSE m \in 0..NumDocs :
    /\ ~Over(PrefixCost(m))
    /\ (m < NumDocs => Over(PrefixCost(m + 1)))
    /\ \A j \in 0..m : ~Over(PrefixCost(j))

\* C9: when the first document fits, the packer packs exactly the longest
\* prefix d1..dm whose cumulative estimated cost is at most 150,000 (k-1
\* documents when document k is the first to cross, all N when none does),
\* nothing after the first document that does not fit, and the payload is the
\* serialized forms of d1..dm in input order joined by "\n\n---\n\n".
C9_PacksLongestFittingPrefix ==
  (pcPack = "done" /\ NumDocs >= 1 /\ ~Over(Cost(1))) =>
    /\ usedDocuments = FitCount
    /\ usedDocuments >= 1
    /\ ContentText(combinedContent) =
         JoinWith([k \in 1..FitCount |-> Serialized(k)], <<"\n","\n","-","-","-","\n","\n">>)
    /\ totalTokens = PrefixCost(FitCount)

C9_Witness ==
  /\ pcPack = "done"
  /\ NumDocs = 3
  /\ usedDocuments = 1
  /\ Over(DoubleAdd(Cost(1), Cost(2)))
  /\ ~Over(DoubleAdd(Cost(1), Cost(3)))

\* C10: when the first document alone costs more than 150,000 the packer
\* returns one packed document: the first 150,000 characters of its
\* serialized form followed by the truncation marker, which ends the payload;
\* usedCount is 1 and no other document contributes.
C10_FirstDocumentTruncated ==
  (pcPack = "done" /\ NumDocs >= 1 /\ Over(Cost(1))) =>
    /\ usedDocuments = 1
    /\ ContentText(combinedContent) = SubSeq(Serialized(1), 1, 150000) \o TRUNCATION_MESSAGE
    /\ Len(ContentText(combinedContent)) = 150000 + Len(TRUNCATION_MESSAGE)
    /\ EndsWith(ContentText(combinedContent), TRUNCATION_MESSAGE)

C10_Witness ==
  /\ pcPack = "done"
  /\ NumDocs = 3
  /\ documents[1] = "WOver"
  /\ documents[2] = "WSmall"
  /\ usedDocuments = 1
  /\ Len(Serialized(1)) > 150000 + 1

\* C11: the packer makes forward progress: for a non-empty input of N
\* documents 1 <= usedCount <= N and the payload is non-empty; for the empty
\* input usedCount is 0 and the payload is empty.
C11_ForwardProgress ==
  pcPack = "done" =>
    /\ NumDocs >= 1 =>
          /\ 1 <= usedDocuments
          /\ usedDocuments <= NumDocs
          /\ ContentText(combinedContent) # <<>>
    /\ NumDocs = 0 =>
          /\ usedDocuments = 0
          /\ ContentText(combinedContent) = <<>>

\* Progress on an input whose first document does not fit, with more behind it.
C11_Witness ==
  /\ pcPack = "done"
  /\ NumDocs = 2
  /\ Over(Cost(1))
  /\ usedDocuments = 1
  /\ ContentText(combinedContent) # <<>>

\* C12: the estimator applied to the whole returned payload, separators and
\* truncation marker included, is at most 150,000, for every input sequence.
C12_PayloadWithinCeiling ==
  pcPack = "done" => ~Over(estimateTokens(ContentText(combinedContent)))

\* What is sent for a document list, stated without regard to the copy of
\* the packer: nothing for no document, the cut first document and the
\* marker when it alone is over the ceiling, otherwise the longest fitting
\* prefix with separators.
SentPayload ==
  IF NumDocs = 0 THEN <<>>
  ELSE IF Over(Cost(1))
    THEN SubSeq(Serialized(1), 1, 150000)
           \o <<"\n","\n","[","C","o","n","t","e","n","t"," ","t","r","u","n","c","a","t","e","d"," ",
                "b","e","c","a","u","s","e"," ","i","t"," ","w","a","s"," ","t","o","o"," ",
                "l","o","n","g","]">>
    ELSE JoinWith([k \in 1..FitCount |-> Serialized(k)], <<"\n","\n","-","-","-","\n","\n">>)
SentCount ==
  IF NumDocs = 0 THEN 0 ELSE IF Over(Cost(1)) THEN 1 ELSE FitCount

\* C30: the loop inlined in summarizeDocuments and the extracted
\* combineDocumentsWithinTokenLimit send the same: for every document list
\* the payload and the count of packed documents are those the list alone
\* determines, whichever copy ran. Without truncation both report the same
\* estimate, the cost of the packed prefix; with truncation the inlined
\* loop reports 0 and the extracted one 150,000. Neither ever reports more
\* than 150,000.
C30_PackersAgree ==
  pcPack = "done" =>
    /\ impl \in {"inline", "extracted"}
    /\ ContentText(combinedContent) = SentPayload
    /\ usedDocuments = SentCount
    /\ ~Over(totalTokens)
    /\ (NumDocs = 0 \/ ~Over(Cost(1))) => totalTokens = PrefixCost(SentCount)
    /\ (NumDocs > 0 /\ Over(Cost(1))) =>
         totalTokens = IF impl = "inline" THEN DoubleOfInt(0) ELSE Ceiling

\* The extracted copy after truncating a first document that has others
\* behind it.
C30_Witness ==
  /\ pcPack = "done"
  /\ impl = "extracted"
  /\ NumDocs = 2
  /\ Over(Cost(1))
  /\ totalTokens = Ceiling
  /\ Len(ContentText(combinedContent)) = 150045

----------------------------------------------------------------------------
(* Properties of the service calls (checked under SpecLlm) *)

\* No credential is configured: the variable is unset or empty.
NoCredential == apiKey \in {None, Some(<<>>)}

\* C13: without a credential summarizeDocuments fails with the
\* missing-credential error before anything else happens: no document is
\* packed and no request is sent in that call.
C13_MissingCredentialFailsFirst ==
  (op = "summarizeDocuments" /\ NoCredential) =>
    /\ pcLlm = "done"
    /\ outcome = Throw(MSG_API_KEY_NOT_SET)
    /\ requests = <<>>
    /\ pcPack = "off"
    /\ usedDocuments = 0
    /\ combinedContent = <<>>

\* The call made with documents to pack and the credential set to "".
C13_Witness ==
  /\ op = "summarizeDocuments"
  /\ apiKey = Some(<<>>)
  /\ documents # <<>>
  /\ pcLlm = "done"
  /\ outcome.threw

\* Whether a parsed value has the three-field shape: an object whose
\* projectName and summary are strings and whose topics is a list.
HasField(v, key, kind) ==
  \E k \in 1..Len(v.val) : v.val[k].key = key /\ v.val[k].value.kind = kind
HasResultShape(v) ==
  /\ v.kind = "object"
  /\ HasField(v, <<"p","r","o","j","e","c","t","N","a","m","e">>, "string")
  /\ HasField(v, <<"s","u","m","m","a","r","y">>, "string")
  /\ HasField(v, <<"t","o","p","i","c","s">>, "array")

\* C14: with a credential, summarizeDocuments returns a value only when the
\* response text parses to the three-field shape; it fails with the
\* empty-response error when the response has no text, and with the
\* malformed-result error whenever the text cannot be parsed as that shape.
C14_ReturnsOnlyTheExpectedShape ==
  (op = "summarizeDocuments" /\ pcLlm = "done" /\ ~NoCredential /\ ~reply.failed) =>
    LET text == extractTextFromLlmResponse(reply)
    IN /\ text = <<>> =>
            outcome.threw /\ Contains(outcome.message, MSG_EMPTY_RESPONSE)
       /\ ~outcome.threw => HasResultShape(outcome.value)
       /\ (outcome.threw /\ text # <<>>) =>
            Contains(outcome.message, MSG_COULD_NOT_PARSE)

\* The fenced block that closes some of the reply texts.
SecondBlock == <<" ">> \o FENCE \o <<"x">> \o FENCE

\* What parsing the text b alone leads to: its value, or the malformed-result
\* error.
ParsedAlone(b) ==
  IF JSONParse(b).ok THEN outcome = Return(JSONParse(b).val)
  ELSE outcome.threw /\ Contains(outcome.message, MSG_COULD_NOT_PARSE)

\* C15: when the response text contains a fenced block (optionally tagged
\* json), only the interior of the first such fence is parsed and the text
\* before and after it is ignored; without a fence the raw text is parsed.
C15_ParsesFirstFenceInterior ==
  (op = "summarizeDocuments" /\ pcLlm = "done" /\ ~NoCredential /\ ~reply.failed) =>
    LET text == extractTextFromLlmResponse(reply)
    IN \A c \in ReplyParts :
         (ReplyTextOf[c] = text /\ text # <<>>) =>
           IF c.fence # "none" THEN ParsedAlone(c.body)
           ELSE IF c.suffix = SecondBlock THEN ParsedAlone(<<"x">>)
           ELSE ParsedAlone(text)

\* A result returned from a reply with prose and a tagged fence around it,
\* followed by a second fenced block.
C15_Witness ==
  /\ op = "summarizeDocuments"
  /\ pcLlm = "done"
  /\ ~outcome.threw
  /\ \E c \in ReplyParts :
       /\ c.prefix = <<"H","e","r","e",":","\n">>
       /\ c.fence = "json"
       /\ c.body = GoodJson
       /\ c.suffix = SecondBlock
       /\ reply.content = <<Block("text", ReplyTextOf[c])>>
  /\ outcome.value = JSONParse(GoodJson).val

\* "Document: " and the part of the path after its last slash.
DocumentLabel(path) ==
  LET slashes == {i \in 1..Len(path) : path[i] = "/"}
      from == IF slashes = {} THEN 1 ELSE SetMax(slashes) + 1
  IN <<"D","o","c","u","m","e","n","t",":"," ">> \o SubSeq(path, from, Len(path))

\* v is text without the whitespace at its two ends.
IsTrimOf(v, text) ==
  \E i \in 1..Len(text) : \E j \in i..Len(text) :
    /\ v = SubSeq(text, i, j)
    /\ text[i] \notin WhitespaceChars
    /\ text[j] \notin WhitespaceChars
    /\ \A k \in 1..Len(text) : (k < i \/ k > j) => text[k] \in WhitespaceChars

\* C16: generateDocumentDescription never propagates a failure: without a
\* credential (no request is sent then), when the call fails, or when the
\* returned text is empty or whitespace-only it returns "Document: " +
\* basename(document.path); otherwise the trimmed response text.  The result
\* is always a non-empty string.
C16_DescribeAlwaysReturns ==
  (op = "generateDocumentDescription" /\ pcLlm = "done") =>
    LET text == extractTextFromLlmResponse(reply)
        degraded == \/ NoCredential
                    \/ reply.failed
                    \/ \A k \in 1..Len(text) : text[k] \in WhitespaceChars
    IN /\ ~outcome.threw
       /\ outcome.value # <<>>
       /\ NoCredential => requests = <<>>
       /\ degraded => outcome.value = DocumentLabel(document.path)
       /\ ~degraded => IsTrimOf(outcome.value, text)

\* The fallback returned for a whitespace-only text with a credential set.
C16_Witness ==
  /\ op = "generateDocumentDescription"
  /\ pcLlm = "done"
  /\ ~NoCredential
  /\ reply.content = <<Block("text", <<" ", "\n">>)>>
  /\ document = DocB
  /\ outcome = Return(<<"D","o","c","u","m","e","n","t",":"," ","b",".","m","d">>)

----------------------------------------------------------------------------
(* Properties of a run of main (checked under SpecMain) *)

\* The calls of the given collaborator, as positions in the log.
CallsOf(name) == {k \in 1..Len(calls) : calls[k].name = name}

\* The run is past the choice of branch: it is in a description loop or
\* later, or ended after having started one.
PastBranch ==
  \/ pcMain \in {"describe", "describing", "server", "config"}
  \/ CallsOf("generateDocumentDescription") # {}

\* The override is given and has a non-empty canonical form.
OverrideEffective ==
  /\ customProjectName # None
  /\ convertToKebabCase(customProjectName[1]) # <<>>

\* C17: summarizeDocuments is called if and only if no override was given
\* or the override canonicalises to the empty string. With an override of
\* non-empty canonical form the project name is that form and the call is
\* never made; an override of empty canonical form is dropped, and the
\* project name is the one derived from the summarization result.
C17_SummarizeIffNoEffectiveOverride ==
  op = "main" =>
    /\ (pcMain \in {"summarize", "summarizing"} \/ CallsOf("summarizeDocuments") # {})
         => ~OverrideEffective
    /\ PastBranch => (CallsOf("summarizeDocuments") # {} <=> ~OverrideEffective)
    /\ (PastBranch /\ OverrideEffective) =>
         projectName = convertToKebabCase(customProjectName[1])
    /\ (PastBranch /\ ~OverrideEffective) =>
         LET derived == convertToKebabCase(summarizationResult.projectName)
         IN projectName = IF derived = <<>> THEN DEFAULT_PROJECT_NAME ELSE derived

\* A run with an effective override finished without a summarization call.
C17_Witness ==
  /\ op = "main"
  /\ exitStatus = "completed"
  /\ OverrideEffective
  /\ projectName = <<"m","y","-","p","r","o","j">>
  /\ CallsOf("summarizeDocuments") = {}

\* The summarization call of the run has settled as a failure: it was made,
\* is no longer in flight, and either there was no credential or the reply
\* to its request makes summarizeDocuments throw.
SummarizeFailed ==
  /\ CallsOf("summarizeDocuments") # {}
  /\ pcMain # "summarizing"
  /\ \/ NoCredential
     \/ /\ requests # <<>>
        /\ requests[Len(requests)].kind = "summarize"
        /\ summarizeAfterCall(impl, reply).threw

\* C18: once summarizeDocuments has failed, the run has ended with exit
\* status 1 and the summarization call is the last call in the log: no
\* description, no metadata synthesis, no server generation and no
\* configuration file follow it.
C18_FailedSummarizationAborts ==
  (op = "main" /\ SummarizeFailed) =>
    /\ pcMain = "end"
    /\ exitStatus = "exit1"
    /\ CallsOf("summarizeDocuments") = {Len(calls)}
    /\ CallsOf("generateDocumentDescription") = {}
    /\ CallsOf("generateMcpToolMetadata") = {}
    /\ CallsOf("generateMcpServer") = {}
    /\ CallsOf("generateMcpServerConfig") = {}
    /\ outcome = Return(<<>>)

\* A run whose summarization request the service failed.
C18_Witness ==
  /\ op = "main"
  /\ SummarizeFailed
  /\ reply = FailedReply
  /\ exitStatus = "exit1"

\* The reads of the run that succeeded, in the order they were made, and
\* the paths of the files they read.
SuccessfulReads ==
  SelectSeq(calls, LAMBDA c : /\ c.name = "readMarkdownFile"
                              /\ "read" \in DOMAIN c.arg
                              /\ c.arg.read)
LoadedPaths == [k \in 1..Len(SuccessfulReads) |-> FilePathAt(SuccessfulReads[k].arg.file)]

PathsOf(docs) == [k \in 1..Len(docs) |-> docs[k].path]

\* C25: the documents main works on are the discovered files whose read
\* succeeded, in discovery order: a failed read leaves out that file only.
\* summarizeDocuments gets exactly these documents, descriptions are asked
\* for these documents, and the metadata table is built from them. When
\* there is none, because nothing was found or no read succeeded, the run
\* ends without a summarize, describe or metadata call.
C25_LoadedDocumentsAreTheReadableFiles ==
  op = "main" =>
    /\ PathsOf(markdownFiles) = LoadedPaths
    /\ \A k \in 1..Len(markdownFiles) :
         markdownFiles[k].content = FileContentAt(SuccessfulReads[k].arg.file)
    /\ \A k \in CallsOf("readMarkdownFile") :
         /\ calls[k].arg.file = discovered[Cardinality({j \in CallsOf("readMarkdownFile") : j <= k})]
    /\ \A k \in CallsOf("summarizeDocuments") : calls[k].arg = LoadedPaths
    /\ \A k \in CallsOf("generateDocumentDescription") : calls[k].arg \in Range(LoadedPaths)
    /\ (CallsOf("generateMcpToolMetadata") # {} /\ ~outcome.threw) =>
         [k \in 1..Len(outcome.value.availablePaths) |->
            outcome.value.availablePaths[k].originalPath] = LoadedPaths
    /\ ( \/ pcMain \in {"summarize", "summarizing", "describe", "describing", "server", "config"}
         \/ CallsOf("summarizeDocuments") # {}
         \/ CallsOf("generateDocumentDescription") # {}
         \/ CallsOf("generateMcpToolMetadata") # {}
         \/ exitStatus = "completed" ) =>
         /\ LoadedPaths # <<>>
         /\ Cardinality(CallsOf("readMarkdownFile")) = Len(discovered)
    /\ (pcMain = "end" /\ CallsOf("findMarkdownFiles") # {} /\ LoadedPaths = <<>>) =>
         /\ exitStatus \in {"exit0", "exit1"}
         /\ exitStatus = "exit0" => discovered = <<>>
         /\ calls[Len(calls)].name \in {"findMarkdownFiles", "readMarkdownFile"}

\* A finished run in which the first of two files could not be read.
C25_Witness ==
  /\ op = "main"
  /\ exitStatus = "completed"
  /\ Len(discovered) = 2
  /\ Len(markdownFiles) = 1
  /\ markdownFiles[1].path = FilePathAt(discovered[2])
  /\ Len(outcome.value.availablePaths) = 1

\* The composite identifier of the run's project name is over the ceiling.
CompositeTooLong ==
  Len(Composite(ServerNameOf(projectName), generateToolName(projectName))) > 64

\* C26: name validation gates what follows. A failed validation is the
\* whole result of generateMcpToolMetadata: the name-too-long error, no
\* description and no table. In a run, generateMcpServer is called only
\* after generateMcpToolMetadata has returned metadata, and
\* generateMcpServerConfig only after generateMcpServer has returned; when
\* validation fails neither is called and the run ends with exit status 1.
C26_ValidationGatesDownstream ==
  op = "main" =>
    /\ CallsOf("generateMcpToolMetadata") # {} =>
         /\ outcome.threw <=> CompositeTooLong
         /\ outcome.threw => /\ NameTooLong
                             /\ pcMain = "end"
                             /\ exitStatus = "exit1"
                             /\ CallsOf("generateMcpServer") = {}
                             /\ CallsOf("generateMcpServerConfig") = {}
                             /\ CallsOf("generateMcpToolMetadata") = {Len(calls)}
    /\ \A k \in CallsOf("generateMcpServer") :
         /\ k - 1 \in CallsOf("generateMcpToolMetadata")
         /\ ~outcome.threw
         /\ ~CompositeTooLong
    /\ \A k \in CallsOf("generateMcpServerConfig") :
         /\ k - 1 \in CallsOf("generateMcpServer")
         /\ pcMain # "server"
    /\ exitStatus = "completed" =>
         /\ CallsOf("generateMcpServerConfig") = {Len(calls)}
         /\ ~outcome.threw

\* A run that ended at a failed validation, after the descriptions.
C26_Witness ==
  /\ op = "main"
  /\ CallsOf("generateDocumentDescription") # {}
  /\ CallsOf("generateMcpToolMetadata") # {}
  /\ NameTooLong
  /\ exitStatus = "exit1"

\* The description calls of the run, in the order they were made.
DescriptionCalls == SelectSeq(calls, LAMBDA c : c.name = "generateDocumentDescription")

\* The documents that have a description.
Described == {k \in 1..Len(markdownFiles) : markdownFiles[k].description # None}

\* What holds in every state of a run about its description calls.
C27_State ==
  op = "main" =>
    /\ Cardinality(CallsOf("summarizeDocuments")) <= 1
    /\ Len(DescriptionCalls) <= Len(markdownFiles)
    /\ \A i \in 1..Len(DescriptionCalls) : DescriptionCalls[i].arg = markdownFiles[i].path
    /\ Described = IF pcMain = "describing"
                     THEN 1..(Len(DescriptionCalls) - 1)
                     ELSE 1..Len(DescriptionCalls)
    /\ \A k \in Described :
         /\ markdownFiles[k].description[1] # <<>>
         /\ markdownFiles[k].description[1]
              \in {DocumentLabel(markdownFiles[k].path), <<"d">>}
    /\ CallsOf("generateMcpToolMetadata") # {} =>
         /\ Described = 1..Len(markdownFiles)
         /\ \A k \in CallsOf("generateDocumentDescription") :
              k < SetMin(CallsOf("generateMcpToolMetadata"))

\* What holds of every step that settles a description call: the document
\* asked about gets its description, the label of its file name when the
\* call failed or there is no credential; no other document changes, no
\* call is made in the step, and the run goes on.
C27_Step ==
  (op = "main" /\ pcMain = "describing") =>
    /\ pcMain' = "describe"
    /\ exitStatus' = exitStatus
    /\ calls' = calls
    /\ Len(markdownFiles') = Len(markdownFiles)
    /\ \A k \in 1..Len(markdownFiles) :
         k # Len(DescriptionCalls) => markdownFiles'[k] = markdownFiles[k]
    /\ markdownFiles'[Len(DescriptionCalls)].description # None
    /\ (NoCredential \/ reply.failed) =>
         markdownFiles'[Len(DescriptionCalls)].description
           = Some(DocumentLabel(markdownFiles[Len(DescriptionCalls)].path))

\* C27: description calls are made one document at a time, in document
\* order, each document once and none again; summarizeDocuments is called at
\* most once in a run; a description call that fails gives its document
\* the fallback and nothing else changes, the remaining documents are still
\* asked about, and every document has a non-empty description when
\* generateMcpToolMetadata is called.
C27_DescriptionsOneByOne == []C27_State /\ [][C27_Step]_vars

\* A finished run of two documents in which the first description call
\* failed and the second gave a text.
C27_Witness ==
  /\ op = "main"
  /\ exitStatus = "completed"
  /\ Len(markdownFiles) = 2
  /\ markdownFiles[1].description = Some(DocumentLabel(markdownFiles[1].path))
  /\ markdownFiles[2].description = Some(<<"d">>)
  /\ Len(DescriptionCalls) = 2

\* The calls that are handed the project name.
NamedCalls ==
  CallsOf("generateMcpToolMetadata") \cup CallsOf("generateMcpServer")
    \cup CallsOf("generateMcpServerConfig")

\* C29: the project name main hands to generateMcpToolMetadata,
\* generateMcpServer and generateMcpServerConfig, which makes it the server
\* key of the configuration, is non-empty and canonical: the canonical form
\* of the override, that of the suggested name, or 'markdown-docs-server'.
\* The server name the validation used is therefore the emitted key, and in
\* every run that writes a configuration "mcp__" + key + "__" + toolName is
\* at most 64 long.
C29_ServerKeyIsTheValidatedName ==
  op = "main" =>
    /\ \A k \in NamedCalls :
         LET key == calls[k].arg
         IN /\ key # <<>>
            /\ Range(key) \subseteq AlnumHyphenChars
            /\ KebabOfLowered(toLowerCase(key), FALSE) = key
            /\ \/ /\ customProjectName # None
                  /\ key = KebabOfLowered(toLowerCase(customProjectName[1]), FALSE)
               \/ key = KebabOfLowered(toLowerCase(summarizationResult.projectName), FALSE)
               \/ key = <<"m","a","r","k","d","o","w","n","-","d","o","c","s","-",
                          "s","e","r","v","e","r">>
    /\ \A k \in CallsOf("generateMcpServerConfig") :
         /\ calls[k].arg = calls[SetMin(CallsOf("generateMcpToolMetadata"))].arg
         /\ ~outcome.threw
         /\ Len(<<"m","c","p","_","_">> \o calls[k].arg \o <<"_","_">>
                  \o outcome.value.toolName) <= 64

\* A finished run under the default name, the suggested name having no
\* canonical form.
C29_Witness ==
  /\ op = "main"
  /\ exitStatus = "completed"
  /\ summarizationResult.projectName = <<"?","!">>
  /\ calls[Len(calls)] = Call("generateMcpServerConfig", DEFAULT_PROJECT_NAME)

\* C19: with no override given and a summarization call that has failed,
\* the determination of the project name does not fail: the run has not
\* ended in the failure outcome, the project name is the default
\* 'markdown-docs-server' and no summarization result is attached.
C19_FailedSummarizationYieldsDefault ==
  (op = "main" /\ customProjectName = None /\ SummarizeFailed) =>
    /\ exitStatus # "exit1"
    /\ projectName = DEFAULT_PROJECT_NAME
    /\ summarizationResult = [projectName |-> <<>>, summary |-> <<>>, topics |-> <<>>]

----------------------------------------------------------------------------
(* Properties of a metadata table (checked under SpecTable) *)

\* The table generateMcpToolMetadata returned.
Table == outcome.value.availablePaths
TableMade == op = "generateMcpToolMetadata" /\ ~outcome.threw

\* The path with '.' segments removed: what names the file.
FileOf(filePath) ==
  IF filePath = <<"/","d","/",".","/","a",".","m","d">>
    THEN <<"/","d","/","a",".","m","d">> ELSE filePath

\* The file name of a table path.
FileNameOf(filePath) ==
  IF filePath = <<"/","d","/","s","/","b",".","m","d">>
    THEN <<"b",".","m","d">> ELSE <<"a",".","m","d">>

\* C21 as stated: documents with pairwise distinct absolute paths under one
\* root give table entries with pairwise distinct paths.
C21_DistinctPathsGiveDistinctEntries ==
  ( /\ TableMade
    /\ \A i, j \in 1..Len(markdownFiles) :
         i # j => markdownFiles[i].path # markdownFiles[j].path ) =>
    \A i, j \in 1..Len(Table) : i # j => Table[i].path # Table[j].path

\* C21 amended: documents whose absolute paths name pairwise distinct files
\* under one root (they are distinct once '.' segments are resolved) give
\* table entries with pairwise distinct paths; two spellings of one file's
\* path give two entries with the same path.
C21_DistinctFilesGiveDistinctEntries ==
  TableMade =>
    /\ Len(Table) = Len(markdownFiles)
    /\ \A i, j \in 1..Len(markdownFiles) :
         i # j => ( Table[i].path = Table[j].path
                      <=> FileOf(markdownFiles[i].path) = FileOf(markdownFiles[j].path) )

\* A table of three files, two of them with the same file name.
C21_Witness ==
  /\ TableMade
  /\ Len(Table) = 3
  /\ \A i, j \in 1..3 : i # j => Table[i].path # Table[j].path
  /\ \E i, j \in 1..3 : /\ i # j
                        /\ FileNameOf(markdownFiles[i].path) = FileNameOf(markdownFiles[j].path)

\* C22: every entry of a table has a non-empty description: the document's
\* description when it is present and non-empty, otherwise "Document: "
\* followed by the file name of the relative path.
C22_DescriptionNeverEmpty ==
  TableMade =>
    \A i \in 1..Len(Table) :
      /\ Table[i].description # <<>>
      /\ Table[i].description =
           IF markdownFiles[i].description \notin {None, Some(<<>>)}
             THEN markdownFiles[i].description[1]
             ELSE <<"D","o","c","u","m","e","n","t",":"," ">>
                    \o FileNameOf(markdownFiles[i].path)

\* A table with an entry for a document whose description is the empty
\* string and one for a document that has a description.
C22_Witness ==
  /\ TableMade
  /\ \E i, j \in 1..Len(Table) :
       /\ markdownFiles[i].description = Some(<<>>)
       /\ EndsWith(Table[i].description, <<":"," ","a",".","m","d">>)
       /\ markdownFiles[j].description = Some(Table[j].description)

\* The heading of each content of the tables: the trimmed text of its first
\* line that is '#', whitespace, text; None when it has no such line.
HeadingOf(content) ==
  IF content = <<"#"," ","A","\n","x">> THEN Some(<<"A">>)
  ELSE IF content = <<"\n"," "," ","#"," ","T"," ","\n","#"," ","U">> THEN Some(<<"T">>)
  ELSE None

\* C23: the title of an entry depends on the document's content alone: it
\* is the heading of the content, absent when the content has none,
\* whatever title the document was supplied with; documents with the same
\* content get the same title.
C23_TitleFromContentAlone ==
  TableMade =>
    /\ \A i \in 1..Len(Table) : Table[i].title = HeadingOf(markdownFiles[i].content)
    /\ \A i, j \in 1..Len(Table) :
         markdownFiles[i].content = markdownFiles[j].content
           => Table[i].title = Table[j].title

\* A table with two documents of the same content and different supplied
\* titles, and one whose supplied title has no heading behind it.
C23_Witness ==
  /\ TableMade
  /\ \E i, j \in 1..Len(Table) :
       /\ markdownFiles[i].content = markdownFiles[j].content
       /\ markdownFiles[i].title = Some(<<"Z">>)
       /\ markdownFiles[j].title = None
       /\ Table[i].title = Some(<<"A">>)
  /\ \E i \in 1..Len(Table) :
       markdownFiles[i].title # None /\ Table[i].title = None

\* Where the bullet of the i-th topic starts in the description, counted
\* from its first character: after the summary, the blank line, the
\* preamble and the bullets of the topics before it.
BulletOffset(i) ==
  LET topics == summarizationResult.topics
      before == [k \in 0..Len(topics) |-> IF k < i THEN Len(topics[k + 1]) + 3 ELSE 0]
      RECURSIVE Sum(_)
      Sum(k) == IF k = 0 THEN 0 ELSE before[k - 1] + Sum(k - 1)
  IN Len(summarizationResult.summary) + 2 + Len(TOOL_DESCRIPTION_PREAMBLE) + Sum(i)

\* C24: the description is the summary, a blank line, the preamble, one
\* line "- topic" per topic and the closing sentence; the i-th bullet line
\* is that of the i-th topic, so every topic is listed once, in the order
\* of the summarization result.
C24_DescriptionListsTopicsInOrder ==
  TableMade =>
    LET d == outcome.value.toolDescription
        topics == summarizationResult.topics
    IN /\ StartsWith(d, summarizationResult.summary \o <<"\n","\n">>
                          \o TOOL_DESCRIPTION_PREAMBLE)
       /\ \A i \in 1..Len(topics) :
            SubSeq(d, BulletOffset(i - 1) + 1, BulletOffset(i))
              = <<"-"," ">> \o topics[i] \o <<"\n">>
       /\ SubSeq(d, BulletOffset(Len(topics)) + 1, Len(d)) = TOOL_DESCRIPTION_CLOSING

\* A description of two topics that are not in alphabetical order.
C24_Witness ==
  /\ TableMade
  /\ summarizationResult.topics = << <<"t","2">>, <<"t","1">> >>
  /\ Contains(outcome.value.toolDescription,
              <<"-"," ","t","2","\n","-"," ","t","1","\n","\n","Y","o","u">>)

----------------------------------------------------------------------------
(* The whole: the name functions, the packer, the service calls, a run of
   main or a metadata table *)

Init == InitNames \/ InitPack \/ InitLlm \/ InitMain \/ InitTable

Next == NextNames \/ NextPack \/ NextLlm \/ NextMain \/ NextTable

Spec == Init /\ [][Next]_vars

====
